---------------------------- MODULE Spec2Model ----------------------------
(***************************************************************************)
(* A model of the polyhedron facet-topology engine of euclid/coxeter       *)
(* (src/euclid/shape_classes/polyhedron.py), of the descriptor dispatch    *)
(* (src/coxeter/shape_getters.py) and of the Sphere                        *)
(* (src/coxeter/shape_classes/sphere.py).                                  *)
(*                                                                         *)
(* Number representation.  Vertices are points of the integer lattice, so  *)
(* every quantity the code computes in floating point is represented       *)
(* exactly:                                                                *)
(*   - a plane equation (unit normal n, offset d) is the pair <<P, e>> of  *)
(*     the primitive integer vector P with n = P/|P| and the integer       *)
(*     e = P.v0 with d = e/|P|;                                            *)
(*   - the area of a planar facet is the pair <<m, q>> standing for        *)
(*     m*sqrt(q)/2, with q = |P|^2 and 2*(vector area) = +-m*P;            *)
(*   - volume = sum(d_i * area_i)/3 = sum(e_i * m_i)/6, kept as 6*volume.  *)
(* On lattice points two different plane equations differ by far more than *)
(* the tolerances of numpy.allclose (1e-8, 1e-5), so "close" is equality.  *)
(* Vertex and facet indices are 1-based here (index i of the code is i+1). *)
(***************************************************************************)
EXTENDS Integers, Sequences, FiniteSets, TLC

VARIABLES
    kind,       \* "Polyhedron" or "ConvexPolyhedron": the class constructed
    status,     \* "new": arguments chosen; "ok": constructed; "error": the
                \* constructor raised; "nan": the coordinates and offsets are
                \* nan or inf; "collapsed": all vertices coincide
    vertices,   \* self._vertices
    facets,     \* self._facets
    equations,  \* self._equations
    neighbors,  \* self._neighbors
    merged,     \* merge_facets has run on this object
    lastOp,     \* the last call made on the object
    prev,       \* the object's fields before the last call
    call,       \* the last call: its argument, and whether it raised
    request,    \* the arguments of a call of from_gsd_type_shapes
    shape,      \* what that call returned or raised
    sphere,     \* a Sphere: self._radius and self._center
    polygon,    \* a Polygon: self._vertices and self._normal
    ft          \* an FTpolyhedron: K, position, orientation and S

vars == <<kind, status, vertices, facets, equations, neighbors,
          merged, lastOp, prev, call, request, shape, sphere,
          polygon, ft>>

----------------------------------------------------------------------------
(* Bounds of the model *)

MaxCoord == 6        \* largest absolute vertex coordinate kept
MaxReversed == 2     \* the first MaxReversed input facets may be given reversed
MaxDiag == 2         \* the first MaxDiag quadrilateral faces may be split either way
MaxScale == 2        \* rescaling factors are p/q with p, q in 1..MaxScale
MaxValue == 3        \* a Sphere is given radii, volumes and areas up to MaxValue
MaxParticles == 2    \* set_rq is given up to MaxParticles particles

----------------------------------------------------------------------------
(* Integer vectors *)

Abs(x) == IF x < 0 THEN -x ELSE x

RECURSIVE Gcd(_, _)
Gcd(a, b) == IF b = 0 THEN a ELSE Gcd(b, a % b)

Gcd3(v) == Gcd(Gcd(Abs(v[1]), Abs(v[2])), Abs(v[3]))

VAdd(a, b) == <<a[1] + b[1], a[2] + b[2], a[3] + b[3]>>
VSub(a, b) == <<a[1] - b[1], a[2] - b[2], a[3] - b[3]>>
VScale(k, a) == <<k * a[1], k * a[2], k * a[3]>>
VDiv(a, k) == <<a[1] \div k, a[2] \div k, a[3] \div k>>
Dot(a, b) == a[1] * b[1] + a[2] * b[2] + a[3] * b[3]
Cross(a, b) == <<a[2] * b[3] - a[3] * b[2],
                 a[3] * b[1] - a[1] * b[3],
                 a[1] * b[2] - a[2] * b[1]>>
Zero3 == <<0, 0, 0>>

RECURSIVE VSum(_, _)
VSum(pts, k) == IF k = 0 THEN Zero3 ELSE VAdd(VSum(pts, k - 1), pts[k])

\* Evaluation helpers: Only({e : x \in {a}}) is e with x bound to the value
\* of a, computed once; Tup(s) is the sequence s with its elements computed.
Only(S) == CHOOSE x \in S : TRUE
Tup(s) == s \o <<>>

Range(s) == {s[k] : k \in 1..Len(s)}
Reverse(s) == Tup([k \in 1..Len(s) |-> s[Len(s) + 1 - k]])
Contains(s, x) == \E k \in 1..Len(s) : s[k] = x

\* list(set): the ascending order CPython gives small non-negative ints
SetToSeq(S) ==
    Tup([p \in 1..Cardinality(S) |->
            CHOOSE x \in S : Cardinality({y \in S : y < x}) = p - 1])

----------------------------------------------------------------------------
(* Polygon: the collaborator of sort_facets and get_facet_area.  Its       *)
(* constructor checks the points, takes the normal from the first three    *)
(* points and orders the points by angle about their centroid,             *)
(* counterclockwise about that normal, the first point staying first.      *)

\* normal = cross(vertices[2] - vertices[1], vertices[0] - vertices[1])
PolygonNormal(pts) == Cross(VSub(pts[3], pts[2]), VSub(pts[1], pts[2]))

\* at least 3 different points, all points in one plane
PolygonValid_three_unique(pts) ==
    /\ Cardinality(Range(pts)) >= 3
    /\ PolygonNormal(pts) # Zero3
    /\ \A k \in 1..Len(pts) : Dot(VSub(pts[k], pts[1]), PolygonNormal(pts)) = 0

\* at least 3 points, no duplicated point, all points in one plane
PolygonValid(pts) ==
    /\ Len(pts) >= 3
    /\ \A j, k \in 1..Len(pts) : j # k => pts[j] # pts[k]
    /\ PolygonNormal(pts) # Zero3
    /\ \A k \in 1..Len(pts) : Dot(VSub(pts[k], pts[1]), PolygonNormal(pts)) = 0

\* the points relative to the centroid, scaled by the number of points
PolygonCentered(pts) ==
    Only({Tup([k \in 1..Len(pts) |-> VSub(VScale(Len(pts), pts[k]), sum)]) :
            sum \in {VSum(pts, Len(pts))}})

\* the angle of w measured from ref about nrm lies in [pi, 2*pi)
UpperHalf(ref, w, nrm) ==
    LET s == Dot(Cross(ref, w), nrm)
    IN  ~(s > 0 \/ (s = 0 /\ Dot(ref, w) > 0))

\* lexsort((distances, angles)): w sorts strictly before u
AngleBefore(ref, w, u, nrm) ==
    LET hw == UpperHalf(ref, w, nrm)
        hu == UpperHalf(ref, u, nrm)
        s == Dot(Cross(w, u), nrm)
    IN  \/ ~hw /\ hu
        \/ /\ hw = hu
           /\ \/ s > 0
              \/ s = 0 /\ Dot(w, u) > 0 /\ Dot(w, w) < Dot(u, u)

\* the permutation reorder_verts applies (position |-> index of the input)
PolygonOrder(pts) ==
    Only({Tup([p \in 1..Len(w) |->
                 CHOOSE k \in 1..Len(w) :
                    Cardinality({j \in 1..Len(w) :
                        AngleBefore(w[1], w[j], w[k], nrm)}) = p - 1]) :
            w \in {PolygonCentered(pts)}, nrm \in {PolygonNormal(pts)}})

PolygonVertices(pts) ==
    Only({Tup([p \in 1..Len(ord) |-> pts[ord[p]]]) : ord \in {PolygonOrder(pts)}})

\* twice the vector area of the ordered polygon (shoelace sum)
RECURSIVE Shoelace(_, _)
Shoelace(pts, k) ==
    IF k = 0 THEN Zero3
    ELSE VAdd(Shoelace(pts, k - 1),
              Cross(pts[k], pts[IF k = Len(pts) THEN 1 ELSE k + 1]))

\* area = |signed_area|, as <<m, q>> for m * sqrt(q) / 2
PolygonArea(pts) ==
    Only({IF Gcd3(a2) = 0 THEN <<0, 1>>
          ELSE <<Gcd3(a2), Dot(VDiv(a2, Gcd3(a2)), VDiv(a2, Gcd3(a2)))>> :
            a2 \in {Only({Shoelace(pv, Len(pv)) : pv \in {PolygonVertices(pts)}})}})

\* _triangulation: the fan of triangles from the first vertex of the
\* ordered polygon
PolygonTriangulation(pts) ==
    Only({Tup([k \in 1..(Len(pv) - 2) |-> <<pv[1], pv[k + 1], pv[k + 2]>>]) :
            pv \in {PolygonVertices(pts)}})

----------------------------------------------------------------------------
(* polyhedron.py *)

\* the edges without the one that closes the cycle
facet_to_edges_open(facet, reverse) ==
    Tup([k \in 1..(Len(facet) - 1) |->
            IF reverse THEN <<facet[k + 1], facet[k]>> ELSE <<facet[k], facet[k + 1]>>])

\* _facet_to_edges(facet, reverse): zip(facet, roll(facet, 1 if reverse else -1))
facet_to_edges(facet, reverse) ==
    Tup([k \in 1..Len(facet) |->
            <<facet[k],
              IF reverse THEN facet[IF k = 1 THEN Len(facet) ELSE k - 1]
                         ELSE facet[IF k = Len(facet) THEN 1 ELSE k + 1]>>])

FacetPoints(vs, facet) == Tup([k \in 1..Len(facet) |-> vs[facet[k]]])

\* _find_equations, one facet: the unit normal and the offset
facet_equation(vs, facet) ==
    Only({<<VDiv(normal, Gcd3(normal)), Dot(VDiv(normal, Gcd3(normal)), vs[facet[1]])>> :
            normal \in {Cross(VSub(vs[facet[3]], vs[facet[2]]),
                              VSub(vs[facet[1]], vs[facet[2]]))}})

\* Polyhedron._find_equations
find_equations(vs, fs) ==
    Tup([i \in 1..Len(fs) |-> facet_equation(vs, fs[i])])

\* facets with a common vertex taken for neighbors
find_neighbors_by_vertex(fs) ==
    Tup([i \in 1..Len(fs) |->
            SetToSeq({j \in 1..Len(fs) : j # i /\ Range(fs[i]) \cap Range(fs[j]) # {}})])

\* Polyhedron._find_neighbors
find_neighbors(fs) ==
    Only({Tup([i \in 1..Len(fs) |->
                 SetToSeq({j \in 1..Len(fs) :
                            j # i /\ facet_edges[i] \cap facet_edges[j] # {}})]) :
            facet_edges \in {Tup([i \in 1..Len(fs) |->
                                Range(facet_to_edges(fs[i], FALSE))
                                  \cup Range(facet_to_edges(fs[i], TRUE))])}})

\* Polyhedron.get_facet_area (all facets)
get_facet_area(vs, fs) ==
    Tup([i \in 1..Len(fs) |-> PolygonArea(FacetPoints(vs, fs[i]))])

\* Polyhedron.volume: sum(ds * areas) / 3, as 6 * volume
RECURSIVE SumOffsetArea(_, _, _)
SumOffsetArea(eqs, areas, k) ==
    IF k = 0 THEN 0
    ELSE SumOffsetArea(eqs, areas, k - 1) + eqs[k][2] * areas[k][1]

volume(vs, fs, eqs) ==
    Only({SumOffsetArea(eqs, areas, Len(fs)) : areas \in {get_facet_area(vs, fs)}})

\* Polyhedron.surface_area: sum of the areas, as the set of <<q, sum of m>>
RECURSIVE SumAreaOf(_, _, _)
SumAreaOf(areas, q, k) ==
    IF k = 0 THEN 0
    ELSE SumAreaOf(areas, q, k - 1) + (IF areas[k][2] = q THEN areas[k][1] ELSE 0)

surface_area(vs, fs) ==
    Only({{<<q, SumAreaOf(areas, q, Len(fs))>> :
                q \in {areas[k][2] : k \in 1..Len(fs)}} :
            areas \in {get_facet_area(vs, fs)}})

\* Polyhedron.center (getter): the mean of the vertices, as <<sum, count>>
center(vs) == <<VSum(vs, Len(vs)), Len(vs)>>

\* Polyhedron._triangulation: the triangles of all facets
RECURSIVE triangulation(_, _, _)
triangulation(vs, fs, k) ==
    IF k = 0 THEN <<>>
    ELSE triangulation(vs, fs, k - 1) \o PolygonTriangulation(FacetPoints(vs, fs[k]))

RECURSIVE GcdOver(_, _)
GcdOver(s, k) == IF k = 0 THEN 0 ELSE Gcd(GcdOver(s, k - 1), Gcd3(s[k]))

Det(a, b, c) == Dot(a, Cross(b, c))

\* the six moment functions of inertia_tensor: Ixx, Ixy, Ixz, Iyy, Iyz, Izz
Moment(m, t) ==
    CASE m = 1 -> t[2] * t[2] + t[3] * t[3]
      [] m = 2 -> -(t[1] * t[2])
      [] m = 3 -> -(t[1] * t[3])
      [] m = 4 -> t[1] * t[1] + t[3] * t[3]
      [] m = 5 -> -(t[2] * t[3])
      [] m = 6 -> t[1] * t[1] + t[2] * t[2]

\* triangle_integrate(f): sum(volumes * (fv1 + fv2 + fv3 + fvsum)), the
\* factor 1/120 omitted
RECURSIVE triangle_integrate(_, _, _)
triangle_integrate(m, simplices, k) ==
    IF k = 0 THEN 0
    ELSE triangle_integrate(m, simplices, k - 1)
           + Abs(Det(simplices[k][1], simplices[k][2], simplices[k][3]))
               * (Moment(m, simplices[k][1]) + Moment(m, simplices[k][2])
                    + Moment(m, simplices[k][3])
                    + Moment(m, VAdd(simplices[k][1],
                                     VAdd(simplices[k][2], simplices[k][3]))))

\* Polyhedron.inertia_tensor: with n vertices of sum c, the simplices minus
\* the center are (g / n) * w for the integer points w = (n * v - c) / g;
\* the tensor is (g / n)^5 / 120 times the six sums, given as <<g, n, sums>>
inertia_tensor(vs, fs) ==
    Only({Only({Only({<<g, c[2], Tup([m \in 1..6 |->
                                      triangle_integrate(m, simplices, Len(simplices))])>> :
                        simplices \in {Tup([k \in 1..Len(tris) |->
                                            Tup([j \in 1..3 |-> VDiv(tris[k][j], g)])])}}) :
                    g \in {GcdOver(Tup([k \in 1..Len(tris) |->
                                        <<Gcd3(tris[k][1]), Gcd3(tris[k][2]),
                                          Gcd3(tris[k][3])>>]), Len(tris))}}) :
            c \in {center(vs)},
            tris \in {Only({Tup([k \in 1..Len(raw) |->
                                  Tup([j \in 1..3 |->
                                        VSub(VScale(Len(vs), raw[k][j]),
                                             VSum(vs, Len(vs)))])]) :
                              raw \in {triangulation(vs, fs, Len(fs))}})}})

\* np.where(np.all(self.vertices == vertex, axis=1))[0][0]
FirstIndexOf(vs, point) ==
    CHOOSE i \in 1..Len(vs) :
        vs[i] = point /\ \A j \in 1..(i - 1) : vs[j] # point

\* each point of the Polygon mapped to its place in the facet, not to its
\* index among the vertices
reorder_facet_local(vs, facet) ==
    Only({Tup([k \in 1..Len(facet) |-> FirstIndexOf(FacetPoints(vs, facet), pv[k])]) :
            pv \in {PolygonVertices(FacetPoints(vs, facet))}})

\* sort_facets, step 1: each facet rebuilt from the vertices of its Polygon
reorder_facet(vs, facet) ==
    Only({Tup([k \in 1..Len(facet) |-> FirstIndexOf(vs, pv[k])]) :
            pv \in {PolygonVertices(FacetPoints(vs, facet))}})

\* no neighbor is ever flipped
same_direction_never(es, current_edges) == FALSE

\* the neighbor is flipped: its first edge found in current_edges, in either
\* direction, is there in the same direction
same_direction(es, current_edges) ==
    Only({hits # {} /\ es[CHOOSE j \in hits : \A h \in hits : j <= h] \in current_edges :
            hits \in {{j \in 1..Len(es) :
                          es[j] \in current_edges
                          \/ <<es[j][2], es[j][1]>> \in current_edges}}})

\* a neighbor that is found is not put among the visited facets
visit_neighbor_unmarked(st, neighbor, current_edges) ==
    IF Contains(st.visited, neighbor) THEN st
    ELSE Only({[facets |-> IF flip
                           THEN [st.facets EXCEPT ![neighbor] = Reverse(@)]
                           ELSE st.facets,
                visited |-> st.visited,
                remaining |-> Append(st.remaining, neighbor),
                flips |-> IF flip THEN Append(st.flips, neighbor) ELSE st.flips,
                expanded |-> st.expanded] :
            flip \in {same_direction(facet_to_edges(st.facets[neighbor], FALSE),
                                     current_edges)}})

\* sort_facets, one neighbor of the inner loop; st = [facets, visited,
\* remaining, flips, expanded]
visit_neighbor(st, neighbor, current_edges) ==
    IF Contains(st.visited, neighbor) THEN st
    ELSE Only({[facets |-> IF flip
                           THEN [st.facets EXCEPT ![neighbor] = Reverse(@)]
                           ELSE st.facets,
                visited |-> Append(st.visited, neighbor),
                remaining |-> Append(st.remaining, neighbor),
                flips |-> IF flip THEN Append(st.flips, neighbor) ELSE st.flips,
                expanded |-> st.expanded] :
            flip \in {same_direction(facet_to_edges(st.facets[neighbor], FALSE),
                                     current_edges)}})

\* sort_facets, "for neighbor in self._neighbors[current_facet]" from the
\* k-th neighbor on
RECURSIVE visit_neighbors(_, _, _, _, _)
visit_neighbors(st, nb, current_facet, current_edges, k) ==
    IF k > Len(nb[current_facet]) THEN st
    ELSE Only({visit_neighbors(st2, nb, current_facet, current_edges, k + 1) :
                st2 \in {visit_neighbor(st, nb[current_facet][k], current_edges)}})

\* sort_facets, "while len(remaining_facets)"
RECURSIVE orient_loop(_, _)
orient_loop(st, nb) ==
    IF st.remaining = <<>> THEN st
    ELSE Only({orient_loop(st2, nb) :
                st2 \in {Only({visit_neighbors(
                                [st EXCEPT
                                    !.visited = Append(@, current_facet),
                                    !.remaining = SubSeq(@, 1, Len(@) - 1),
                                    !.expanded = Append(@, current_facet)],
                                nb, current_facet,
                                Range(facet_to_edges(st.facets[current_facet], FALSE)),
                                1) :
                            current_facet \in {st.remaining[Len(st.remaining)]}})}})

\* sort_facets, the orientation pass started from the first facet
orientation_pass(fs, nb) ==
    orient_loop([facets |-> fs, visited |-> <<>>, remaining |-> <<1>>,
                 flips |-> <<>>, expanded |-> <<>>], nb)

NegateEquation(eq) == <<VScale(-1, eq[1]), -eq[2]>>

\* the facets of the orientation pass kept whatever the sign of the volume
sign_fix_never(vs, fs) == [facets |-> fs, equations |-> find_equations(vs, fs)]

\* sort_facets, the last step: flip everything when the volume is negative
sign_fix(vs, fs) ==
    Only({IF volume(vs, fs, eqs) < 0
          THEN [facets |-> Tup([i \in 1..Len(fs) |-> Reverse(fs[i])]),
                equations |-> Tup([i \in 1..Len(fs) |-> NegateEquation(eqs[i])])]
          ELSE [facets |-> fs, equations |-> eqs] :
            eqs \in {find_equations(vs, fs)}})

\* sort_facets after the facets are reordered and the neighbors found
sort_reordered(vs, ordered, nb) ==
    Only({Only({[ok |-> TRUE,
                 facets |-> fixed.facets,
                 equations |-> fixed.equations,
                 neighbors |-> nb,
                 ordered |-> ordered,
                 oriented |-> pass.facets,
                 visited |-> pass.visited,
                 expanded |-> pass.expanded,
                 flips |-> pass.flips] :
                    fixed \in {sign_fix(vs, pass.facets)}}) :
            pass \in {orientation_pass(ordered, nb)}})

\* Polyhedron.sort_facets; ok = FALSE when a Polygon constructor raises
sort_facets(vs, fs) ==
    IF \E i \in 1..Len(fs) : ~PolygonValid(FacetPoints(vs, fs[i]))
    THEN [ok |-> FALSE]
    ELSE Only({Only({sort_reordered(vs, ordered, nb) :
                        nb \in {find_neighbors(ordered)}}) :
                ordered \in {Tup([i \in 1..Len(fs) |-> reorder_facet(vs, fs[i])])}})

\* facets of one plane merged whether or not they are neighbors
merge_edge_any(eqs, nb, i, j) ==
    i # j /\ (eqs[i] = eqs[j] \/ eqs[i] = NegateEquation(eqs[j]))

\* no two plane equations are ever found close
merge_edge_never(eqs, nb, i, j) == FALSE

\* merge_facets: merge_graph[i, j] = 1
merge_edge(eqs, nb, i, j) ==
    /\ Contains(nb[i], j)
    /\ \/ eqs[i] = eqs[j]
       \/ eqs[i] = NegateEquation(eqs[j])

\* connected_components(merge_graph, directed=False): the component of S
RECURSIVE component(_, _, _)
component(eqs, nb, S) ==
    Only({IF T = S THEN S ELSE component(eqs, nb, T) :
            T \in {S \cup {j \in 1..Len(eqs) :
                            \E i \in S : merge_edge(eqs, nb, i, j)
                                           \/ merge_edge(eqs, nb, j, i)}}})

\* only the first component of more than one facet is merged
components_first(eqs, nb) ==
    Only({Only({Tup([l \in 1..Cardinality(roots) |->
                        IF SetToSeq(roots)[l] = first
                        THEN component(eqs, nb, {first})
                        ELSE {SetToSeq(roots)[l]}]) :
                    roots \in {{i \in 1..Len(eqs) :
                                  i = first \/ i \notin component(eqs, nb, {first})}}}) :
            first \in {IF \E i \in 1..Len(eqs) : component(eqs, nb, {i}) # {i}
                       THEN CHOOSE i \in 1..Len(eqs) :
                              /\ component(eqs, nb, {i}) # {i}
                              /\ \A j \in 1..(i - 1) : component(eqs, nb, {j}) = {j}
                       ELSE 1}})

\* connected_components: the components in label order
components(eqs, nb) ==
    Only({Only({Tup([l \in 1..Cardinality(roots) |-> comp[SetToSeq(roots)[l]]]) :
                    roots \in {{i \in 1..Len(eqs) : \A j \in comp[i] : i <= j}}}) :
            comp \in {Tup([i \in 1..Len(eqs) |-> component(eqs, nb, {i})])}})

\* the member facets appended to one another, repeated indices kept
RECURSIVE Extended(_, _, _)
Extended(fs, members, k) ==
    IF k = 0 THEN <<>> ELSE Extended(fs, members, k - 1) \o fs[members[k]]

merged_facets_extend(fs, eqs, nb) ==
    Only({Tup([l \in 1..Len(comps) |->
                 Extended(fs, SetToSeq(comps[l]), Cardinality(comps[l]))]) :
            comps \in {components(eqs, nb)}})

\* merge_facets: the new facet list, one facet per label
merged_facets(fs, eqs, nb) ==
    Only({Tup([l \in 1..Len(comps) |->
                 SetToSeq(UNION {Range(fs[i]) : i \in comps[l]})]) :
            comps \in {components(eqs, nb)}})

----------------------------------------------------------------------------
(* The arguments of the constructors: lattice polyhedra whose faces are    *)
(* strictly convex polygons, given as triangles and quadrilaterals.        *)

TetrahedronV == << <<1, 1, 1>>, <<1, -1, -1>>, <<-1, 1, -1>>, <<-1, -1, 1>> >>
TetrahedronF == << <<1, 2, 3>>, <<1, 2, 4>>, <<1, 3, 4>>, <<2, 3, 4>> >>

OctahedronV == << <<-1, 0, 0>>, <<0, 1, 0>>, <<0, 0, -1>>,
                  <<0, 0, 1>>, <<0, -1, 0>>, <<1, 0, 0>> >>
OctahedronF == << <<1, 2, 3>>, <<1, 2, 4>>, <<1, 5, 3>>, <<1, 5, 4>>,
                  <<6, 2, 3>>, <<6, 2, 4>>, <<6, 5, 3>>, <<6, 5, 4>> >>

CubeV == << <<1, 1, 1>>, <<1, -1, 1>>, <<1, 1, -1>>, <<1, -1, -1>>,
            <<-1, 1, 1>>, <<-1, -1, 1>>, <<-1, 1, -1>>, <<-1, -1, -1>> >>
CubeQ == << <<1, 2, 4, 3>>, <<1, 3, 7, 5>>, <<1, 2, 6, 5>>,
            <<5, 6, 8, 7>>, <<2, 4, 8, 6>>, <<3, 4, 8, 7>> >>

PyramidV == << <<1, 1, 0>>, <<-1, 1, 0>>, <<-1, -1, 0>>, <<1, -1, 0>>,
               <<0, 0, 2>> >>
PyramidQ == << <<1, 2, 3, 4>> >>
PyramidF == << <<1, 2, 5>>, <<2, 3, 5>>, <<3, 4, 5>>, <<4, 1, 5>> >>

\* the cuboctahedron: 6 squares and 8 triangles
CuboctahedronV == << <<1, 1, 0>>, <<1, -1, 0>>, <<-1, 1, 0>>, <<-1, -1, 0>>,
                     <<1, 0, 1>>, <<1, 0, -1>>, <<-1, 0, 1>>, <<-1, 0, -1>>,
                     <<0, 1, 1>>, <<0, 1, -1>>, <<0, -1, 1>>, <<0, -1, -1>> >>
CuboctahedronQ == << <<1, 5, 2, 6>>, <<1, 10, 3, 9>>, <<2, 11, 4, 12>>,
                     <<3, 8, 4, 7>>, <<5, 9, 7, 11>>, <<6, 12, 8, 10>> >>
CuboctahedronF == << <<1, 6, 10>>, <<1, 9, 5>>, <<2, 5, 11>>, <<2, 12, 6>>,
                     <<3, 7, 9>>, <<3, 10, 8>>, <<4, 8, 12>>, <<4, 11, 7>> >>

\* the rhombic dodecahedron: 12 rhombi
RhombicDodecahedronV ==
    << <<1, 1, 1>>, <<1, 1, -1>>, <<1, -1, 1>>, <<1, -1, -1>>,
       <<-1, 1, 1>>, <<-1, 1, -1>>, <<-1, -1, 1>>, <<-1, -1, -1>>,
       <<2, 0, 0>>, <<-2, 0, 0>>, <<0, 2, 0>>, <<0, -2, 0>>,
       <<0, 0, 2>>, <<0, 0, -2>> >>
RhombicDodecahedronQ ==
    << <<1, 9, 2, 11>>, <<1, 11, 5, 13>>, <<1, 13, 3, 9>>, <<2, 9, 4, 14>>,
       <<2, 14, 6, 11>>, <<3, 12, 4, 9>>, <<3, 13, 7, 12>>, <<4, 12, 8, 14>>,
       <<5, 10, 7, 13>>, <<5, 11, 6, 10>>, <<6, 14, 8, 10>>, <<7, 10, 8, 12>> >>

\* two pyramids that share no vertex, their bases in one plane: the
\* neighbor graph is disconnected
TwoPyramidsV == << <<1, 1, 0>>, <<-1, 1, 0>>, <<-1, -1, 0>>, <<1, -1, 0>>,
                   <<0, 0, 2>>,
                   <<4, 1, 0>>, <<2, 1, 0>>, <<2, -1, 0>>, <<4, -1, 0>>,
                   <<3, 0, 2>> >>
TwoPyramidsQ == << <<1, 2, 3, 4>>, <<6, 7, 8, 9>> >>
TwoPyramidsF == << <<1, 2, 5>>, <<2, 3, 5>>, <<3, 4, 5>>, <<4, 1, 5>>,
                   <<6, 7, 10>>, <<7, 8, 10>>, <<9, 8, 10>>, <<6, 9, 10>> >>

\* a tetrahedron whose first vertex is listed a second time as vertex 5,
\* one facet naming it by that index
TetrahedronDupV == TetrahedronV \o << <<1, 1, 1>> >>
TetrahedronDupF == << <<1, 2, 3>>, <<1, 2, 4>>, <<5, 3, 4>>, <<2, 3, 4>> >>

\* a tetrahedron with a fifth triangle on the edge (1, 2), which is then
\* shared by three facets; the fifth triangle lies in the plane of <<1, 2, 3>>
FinV == << <<0, 0, 0>>, <<2, 0, 0>>, <<0, 2, 0>>, <<0, 0, 2>>, <<1, -2, 0>> >>
FinF == << <<1, 3, 4>>, <<1, 2, 3>>, <<1, 2, 4>>, <<2, 3, 4>>, <<1, 2, 5>> >>

\* the two triangles of quadrilateral <<a, b, c, d>>, split along either diagonal
SplitQuad(quad, other) ==
    IF other THEN << <<quad[1], quad[2], quad[4]>>, <<quad[2], quad[3], quad[4]>> >>
    ELSE << <<quad[1], quad[2], quad[3]>>, <<quad[1], quad[3], quad[4]>> >>

RECURSIVE Triangulate(_, _, _)
Triangulate(quads, D, k) ==
    IF k = 0 THEN <<>>
    ELSE Triangulate(quads, D, k - 1) \o SplitQuad(quads[k], k \in D)

Min(a, b) == IF a < b THEN a ELSE b

\* triangle meshes as a convex-hull routine returns them (hull.simplices)
HullMeshes ==
    {[vertices |-> TetrahedronV, facets |-> TetrahedronF],
     [vertices |-> OctahedronV, facets |-> OctahedronF]}
    \cup {[vertices |-> CubeV, facets |-> Triangulate(CubeQ, D, Len(CubeQ))] :
             D \in SUBSET (1..Min(MaxDiag, Len(CubeQ)))}
    \cup {[vertices |-> PyramidV,
           facets |-> Triangulate(PyramidQ, D, Len(PyramidQ)) \o PyramidF] :
             D \in SUBSET (1..Min(MaxDiag, Len(PyramidQ)))}

\* the hulls ConvexPolyhedron(vertices) is constructed from
ConvexMeshes ==
    HullMeshes
    \cup {[vertices |-> CuboctahedronV,
           facets |-> Triangulate(CuboctahedronQ, D, Len(CuboctahedronQ))
                        \o CuboctahedronF] :
             D \in SUBSET (1..Min(MaxDiag, Len(CuboctahedronQ)))}
    \cup {[vertices |-> RhombicDodecahedronV,
           facets |-> Triangulate(RhombicDodecahedronQ, D, Len(RhombicDodecahedronQ))] :
             D \in SUBSET (1..Min(MaxDiag, Len(RhombicDodecahedronQ)))}

\* meshes a caller may hand to Polyhedron(vertices, facets)
Meshes ==
    HullMeshes
    \cup {[vertices |-> TwoPyramidsV,
           facets |-> Triangulate(TwoPyramidsQ, D, Len(TwoPyramidsQ)) \o TwoPyramidsF] :
             D \in SUBSET (1..Min(MaxDiag, Len(TwoPyramidsQ)))}
    \cup {[vertices |-> FinV, facets |-> FinF],
          [vertices |-> TetrahedronDupV, facets |-> TetrahedronDupF]}

\* the facets with those of R given in the opposite winding
WithReversed(fs, R) ==
    Tup([i \in 1..Len(fs) |-> IF i \in R THEN Reverse(fs[i]) ELSE fs[i]])

Windings(mesh) ==
    {[vertices |-> mesh.vertices, facets |-> WithReversed(mesh.facets, R)] :
        R \in SUBSET (1..Min(MaxReversed, Len(mesh.facets)))}

Deltas == {<<1, -2, 3>>, <<-1, 2, -3>>}

Factors == {<<p, q>> \in (1..MaxScale) \X (1..MaxScale) : p # q /\ Gcd(p, q) = 1}

InBox(vs) ==
    \A i \in 1..Len(vs) : \A c \in 1..3 : Abs(vs[i][c]) <= MaxCoord

Fields ==
    [vertices |-> vertices, facets |-> facets, equations |-> equations,
     neighbors |-> neighbors, merged |-> merged]

----------------------------------------------------------------------------
(* The structured-shape descriptor and from_gsd_type_shapes                *)
(* (src/coxeter/shape_getters.py).  A descriptor (a dict) is a record of   *)
(* the set of its keys and the value of each key; the value of an absent   *)
(* key is a fixed blank.  A radius is the fraction <<p, q>>.               *)

Keys == {"type", "diameter", "a", "b", "c", "vertices", "rounding_radius", "faces"}

Blank ==
    [keys |-> {}, type |-> "", diameter |-> 0, a |-> 0, b |-> 0, c |-> 0,
     vertices |-> <<>>, rounding_radius |-> 0, faces |-> <<>>]

\* the dict d without the keys outside K
Restrict(d, K) ==
    [keys |-> d.keys \cap K,
     type |-> IF "type" \in K THEN d.type ELSE Blank.type,
     diameter |-> IF "diameter" \in K THEN d.diameter ELSE Blank.diameter,
     a |-> IF "a" \in K THEN d.a ELSE Blank.a,
     b |-> IF "b" \in K THEN d.b ELSE Blank.b,
     c |-> IF "c" \in K THEN d.c ELSE Blank.c,
     vertices |-> IF "vertices" \in K THEN d.vertices ELSE Blank.vertices,
     rounding_radius |-> IF "rounding_radius" \in K THEN d.rounding_radius
                         ELSE Blank.rounding_radius,
     faces |-> IF "faces" \in K THEN d.faces ELSE Blank.faces]

NoRequest == [made |-> FALSE, params |-> Blank, ndim |-> 3, origin |-> "none"]

NoShape == [called |-> FALSE, raised |-> "", class |-> "", args |-> <<>>]

NoSphere == [exists |-> FALSE, radius |-> <<0, 1, 0>>, center |-> Zero3]

NoPolygon == [exists |-> FALSE, vertices |-> <<>>, normal |-> Zero3]

NoFT == [K |-> <<>>, position |-> <<>>, orientation |-> <<>>, S |-> <<>>]

Raise(error) == [called |-> TRUE, raised |-> error, class |-> "", args |-> <<>>]

Return(class, args) == [called |-> TRUE, raised |-> "", class |-> class, args |-> args]

\* ConvexPolygon(vertices) raises ValueError unless the points, in the order
\* given, turn the same way at every corner
ConvexPolygonValid(pts) ==
    /\ PolygonValid(pts)
    /\ \A k \in 1..Len(pts) :
          Dot(Cross(VSub(pts[(k % Len(pts)) + 1], pts[k]),
                    VSub(pts[((k + 1) % Len(pts)) + 1], pts[(k % Len(pts)) + 1])),
              PolygonNormal(pts)) > 0

\* what the constructor of a shape class does with its arguments: Sphere
\* checks its radius, ConvexPolygon its points; Polyhedron and
\* ConvexPolyhedron are built by constructed
Instance(class, args) ==
    IF class = "Sphere" /\ ~(args[1][1] > 0) THEN Raise("ValueError")
    ELSE IF class = "ConvexPolygon" /\ ~ConvexPolygonValid(args[1])
    THEN Raise("ValueError")
    ELSE Return(class, args)

\* Class(params[k1], params[k2], ...): a missing key raises KeyError before
\* the constructor is entered
New(class, params, needed, args) ==
    IF needed \subseteq params.keys THEN Instance(class, args) ELSE Raise("KeyError")

\* the dispatch decided by ndim alone, whatever the type
from_gsd_type_shapes_by_ndim(params, ndim) ==
    IF "type" \notin params.keys THEN Raise("ValueError")
    ELSE IF ndim = 2
    THEN New("Circle", params, {"diameter"}, <<<<params.diameter, 2>>>>)
    ELSE New("ConvexSpheropolyhedron", params, {"vertices", "rounding_radius"},
             <<params.vertices, params.rounding_radius>>)

from_gsd_type_shapes(params, ndim) ==
    IF "type" \notin params.keys THEN Raise("ValueError")
    ELSE IF params.type = "Sphere"
    THEN IF ndim = 2
         THEN New("Circle", params, {"diameter"}, <<<<params.diameter, 2>>>>)
         ELSE New("Sphere", params, {"diameter"}, <<<<params.diameter, 2>>>>)
    ELSE IF params.type = "Ellipsoid"
    THEN IF "c" \in params.keys
         THEN New("Ellipsoid", params, {"a", "b", "c"}, <<params.a, params.b, params.c>>)
         ELSE New("Ellipse", params, {"a", "b"}, <<params.a, params.b>>)
    ELSE IF params.type = "Polygon"
    THEN IF "rounding_radius" \in params.keys
         THEN New("ConvexSpheropolygon", params, {"vertices", "rounding_radius"},
                  <<params.vertices, params.rounding_radius>>)
         ELSE Only({IF r.raised = "ValueError"
                    THEN New("Polygon", params, {"vertices"}, <<params.vertices>>)
                    ELSE r :
                      r \in {New("ConvexPolygon", params, {"vertices"},
                                 <<params.vertices>>)}})
    ELSE IF params.type = "ConvexPolyhedron"
    THEN IF "rounding_radius" \in params.keys
         THEN New("ConvexSpheropolyhedron", params, {"vertices", "rounding_radius"},
                  <<params.vertices, params.rounding_radius>>)
         ELSE New("ConvexPolyhedron", params, {"vertices"}, <<params.vertices>>)
    ELSE IF params.type = "Mesh"
    THEN New("Polyhedron", params, {"vertices", "faces"},
             <<params.vertices, params.faces>>)
    ELSE Raise("ValueError")

\* the descriptor of a Mesh without its faces
gsd_shape_spec_mesh(vs) ==
    [Blank EXCEPT !.keys = {"type", "vertices"}, !.type = "Mesh", !.vertices = vs]

\* ConvexPolyhedron.gsd_shape_spec
gsd_shape_spec(vs) ==
    [Blank EXCEPT !.keys = {"type", "vertices"}, !.type = "ConvexPolyhedron",
                  !.vertices = vs]

\* the octahedron and the point at its middle, which is on no facet
OctahedronCenteredV == OctahedronV \o <<Zero3>>

\* the vertex lists ConvexPolyhedron(vertices) is called with, and a hull of each
GsdMeshes ==
    ConvexMeshes \cup {[vertices |-> OctahedronCenteredV, facets |-> OctahedronF]}

SquareV == <<<<1, 1, 0>>, <<-1, 1, 0>>, <<-1, -1, 0>>, <<1, -1, 0>>>>

DartV == <<<<0, 2, 0>>, <<-2, -2, 0>>, <<0, -1, 0>>, <<2, -2, 0>>>>

\* descriptors with every field of their type, and two fields of other types
Descriptors ==
    {[Blank EXCEPT !.keys = {"type", "diameter", "rounding_radius", "c"},
                   !.type = "Sphere", !.diameter = d,
                   !.rounding_radius = 1, !.c = 3] : d \in {-2, 0, 2}}
    \cup {[Blank EXCEPT !.keys = {"type", "a", "b", "c", "rounding_radius"},
                        !.type = "Ellipsoid", !.a = 1, !.b = 2, !.c = 3,
                        !.rounding_radius = 1]}
    \cup {[Blank EXCEPT !.keys = {"type", "vertices", "rounding_radius", "c"},
                        !.type = "Polygon", !.vertices = v,
                        !.rounding_radius = 1, !.c = 3] : v \in {SquareV, DartV}}
    \cup {[Blank EXCEPT !.keys = {"type", "vertices", "rounding_radius", "c"},
                        !.type = "ConvexPolyhedron", !.vertices = mesh.vertices,
                        !.rounding_radius = 1, !.c = 3] :
             mesh \in {m \in GsdMeshes : Len(m.vertices) <= Len(CubeV)}}
    \cup {[Blank EXCEPT !.keys = {"type", "vertices", "faces", "rounding_radius", "c"},
                        !.type = "Mesh", !.vertices = mesh.vertices,
                        !.faces = mesh.facets,
                        !.rounding_radius = 1, !.c = 3] :
             mesh \in {[vertices |-> TetrahedronV, facets |-> TetrahedronF],
                       [vertices |-> OctahedronV, facets |-> OctahedronF],
                       [vertices |-> FinV, facets |-> FinF]}}
    \cup {[Blank EXCEPT !.keys = {"type", "rounding_radius", "c"},
                        !.type = "Cylinder", !.rounding_radius = 1, !.c = 3]}

\* the dicts a caller may pass: a descriptor with any of its keys left out
Params == {Restrict(d, K) : d \in Descriptors, K \in SUBSET Keys}

\* hull.simplices of ConvexHull(vs): a triangulation of the hull of vs, its
\* first simplex in either winding
Hulls(vs) ==
    UNION {{WithReversed(mesh.facets, R) : R \in SUBSET {1}} :
             mesh \in {m \in GsdMeshes :
                         /\ Len(m.vertices) = Len(vs)
                         /\ \A i \in 1..Len(vs) :
                               VSub(vs[i], vs[1]) = VSub(m.vertices[i], m.vertices[1])}}

----------------------------------------------------------------------------
(* Sphere (src/coxeter/shape_classes/sphere.py).  A radius r is the triple *)
(* <<n, d, e>> with r^6 = (n/d) * pi^(-e) and n/d in lowest terms; a value *)
(* read from a property is [power, num, den, pi] for the number x with     *)
(* x^power = (num/den) * pi^pi.                                            *)

Lowest(n, d) == <<n \div Gcd(n, d), d \div Gcd(n, d), 0>>

\* the radius p/q
radius_of(p, q) == Lowest(p * p * p * p * p * p, q * q * q * q * q * q)

\* the number v, as a value read from a property
Number(v) == [power |-> 1, num |-> v, den |-> 1, pi |-> 0]

\* x <- x^k for a value x that is a number (power 1)
Raised(x, k) ==
    [power |-> k,
     num |-> IF k = 2 THEN x.num * x.num ELSE x.num * x.num * x.num,
     den |-> IF k = 2 THEN x.den * x.den ELSE x.den * x.den * x.den,
     pi |-> k * x.pi]

\* two values of positive numbers are the same number
SameNumber(x, y) ==
    IF x.power = y.power THEN x = y
    ELSE IF x.power = 1 THEN Raised(x, y.power) = y
    ELSE IF y.power = 1 THEN Raised(y, x.power) = x
    ELSE FALSE

\* (3 * value / (4 * pi)) ** (1 / 3) with the factor 3 / 4 left out
radius_of_volume_unscaled(value) ==
    Only({<<l[1], l[2], 2>> : l \in {Lowest(value * value, 1)}})

\* (3 * value / (4 * pi)) ** (1 / 3)
radius_of_volume(value) ==
    Only({<<l[1], l[2], 2>> : l \in {Lowest(9 * value * value, 16)}})

\* np.sqrt(area / (4 * np.pi))
radius_of_area(area) ==
    Only({<<l[1], l[2], 3>> : l \in {Lowest(area * area * area, 64)}})

\* Sphere.volume: (4 / 3) * np.pi * self.radius ** 3
sphere_volume(r) ==
    Only({[power |-> 2, num |-> l[1], den |-> l[2], pi |-> 2 - r[3]] :
            l \in {Lowest(16 * r[1], 9 * r[2])}})

\* Sphere.surface_area: 4 * np.pi * self.radius ** 2
sphere_surface_area(r) ==
    Only({[power |-> 3, num |-> l[1], den |-> l[2], pi |-> 3 - r[3]] :
            l \in {Lowest(64 * r[1], r[2])}})

----------------------------------------------------------------------------
(* The calls *)

Init ==
    /\ kind \in {"Polyhedron", "ConvexPolyhedron"}
    /\ \E mesh \in (IF kind = "ConvexPolyhedron" THEN ConvexMeshes ELSE Meshes) :
         \E arg \in Windings(mesh) :
            /\ vertices = arg.vertices
            /\ facets = arg.facets
    /\ status = "new"
    /\ equations = <<>>
    /\ neighbors = <<>>
    /\ merged = FALSE
    /\ lastOp = "none"
    /\ prev = [vertices |-> <<>>, facets |-> <<>>, equations |-> <<>>,
               neighbors |-> <<>>, merged |-> FALSE]
    /\ call = [arg |-> <<>>, raised |-> FALSE]
    /\ request = NoRequest
    /\ shape = NoShape
    /\ sphere = NoSphere
    /\ polygon = NoPolygon
    /\ ft = NoFT

\* the fields after merge_facets on an object with the given fields
merge_facets(vs, fs, eqs, nb) ==
    Only({Only({IF r.ok
                THEN [ok |-> TRUE, facets |-> r.facets, equations |-> r.equations,
                      neighbors |-> r.neighbors]
                ELSE [ok |-> FALSE, facets |-> new_facets, equations |-> eqs,
                      neighbors |-> nb] :
                    r \in {sort_facets(vs, new_facets)}}) :
            new_facets \in {merged_facets(fs, eqs, nb)}})

\* the fields Polyhedron.__init__ (sort_facets) and ConvexPolyhedron.__init__
\* (sort_facets, then merge_facets) leave, and whether the constructor ran
\* to its end
constructed(k, vs, fs) ==
    Only({IF ~r.ok
          THEN [ok |-> FALSE, facets |-> fs, equations |-> <<>>,
                neighbors |-> <<>>, merged |-> FALSE]
          ELSE IF k = "Polyhedron"
          THEN [ok |-> TRUE, facets |-> r.facets, equations |-> r.equations,
                neighbors |-> r.neighbors, merged |-> FALSE]
          ELSE Only({[ok |-> m.ok, facets |-> m.facets, equations |-> m.equations,
                      neighbors |-> m.neighbors, merged |-> TRUE] :
                        m \in {merge_facets(vs, r.facets, r.equations, r.neighbors)}}) :
            r \in {sort_facets(vs, fs)}})

\* Polyhedron.__init__ and ConvexPolyhedron.__init__
Construct ==
    /\ status = "new"
    /\ \E c \in {constructed(kind, vertices, facets)} :
         /\ status' = IF c.ok THEN "ok" ELSE "error"
         /\ facets' = c.facets
         /\ equations' = c.equations
         /\ neighbors' = c.neighbors
         /\ merged' = c.merged
    /\ lastOp' = "init"
    /\ prev' = Fields
    /\ call' = [arg |-> <<>>, raised |-> status' = "error"]
    /\ UNCHANGED <<kind, vertices>>
    /\ UNCHANGED <<request, shape, sphere>>
    /\ UNCHANGED <<polygon, ft>>

\* Polyhedron.merge_facets with the default tolerances
MergeFacets ==
    /\ status = "ok"
    /\ \E m \in {merge_facets(vertices, facets, equations, neighbors)} :
           /\ facets' = m.facets
           /\ equations' = m.equations
           /\ neighbors' = m.neighbors
           /\ lastOp' = IF m.ok THEN "merge_facets" ELSE "merge_facets_raised"
           /\ call' = [arg |-> <<>>, raised |-> ~m.ok]
    /\ merged' = TRUE
    /\ prev' = Fields
    /\ UNCHANGED <<kind, status, vertices>>
    /\ UNCHANGED <<request, shape, sphere>>
    /\ UNCHANGED <<polygon, ft>>

\* the equations kept as they were before the vertices moved
equations_kept(moved, fs, eqs) == eqs

\* Polyhedron.center (setter): self._find_equations() once the vertices moved
equations_after_move(moved, fs, eqs) == find_equations(moved, fs)

\* Polyhedron.center (setter), called with value = center + delta
SetCenter(delta) ==
    /\ status = "ok"
    /\ \E c \in {center(vertices)} :
         \E value \in {<<VAdd(c[1], VScale(c[2], delta)), c[2]>>} :
           \E shift \in {VDiv(VSub(value[1], c[1]), c[2])} :
             \E moved \in {Tup([i \in 1..Len(vertices) |-> VAdd(vertices[i], shift)])} :
                /\ InBox(moved)
                /\ vertices' = moved
                /\ equations' = equations_after_move(moved, facets, equations)
                /\ call' = [arg |-> value, raised |-> FALSE]
    /\ lastOp' = "center"
    /\ prev' = Fields
    /\ UNCHANGED <<kind, status, facets, neighbors, merged>>
    /\ UNCHANGED <<request, shape, sphere>>
    /\ UNCHANGED <<polygon, ft>>

\* self._vertices *= scale_factor; self._equations[:, 3] *= scale_factor
Divisible(vs, eqs, q) ==
    /\ \A i \in 1..Len(vs) : \A c \in 1..3 : vs[i][c] % q = 0
    /\ \A i \in 1..Len(eqs) : eqs[i][2] % q = 0

\* the vertices rescaled about their centroid instead of the origin
Rescaled_about_centroid(vs, eqs, f) ==
    [vertices |-> Tup([i \in 1..Len(vs) |->
                        VDiv(VAdd(VScale(f[1] * Len(vs), vs[i]),
                                  VScale(f[2] - f[1], VSum(vs, Len(vs)))),
                             f[2] * Len(vs))]),
     equations |-> Tup([i \in 1..Len(eqs) |->
                        <<eqs[i][1], (f[1] * eqs[i][2]) \div f[2]>>])]

\* the vertices rescaled, the offsets left as they were
Rescaled_vertices_only(vs, eqs, f) ==
    [vertices |-> Tup([i \in 1..Len(vs) |-> VDiv(VScale(f[1], vs[i]), f[2])]),
     equations |-> eqs]

Rescaled(vs, eqs, f) ==
    [vertices |-> Tup([i \in 1..Len(vs) |-> VDiv(VScale(f[1], vs[i]), f[2])]),
     equations |-> Tup([i \in 1..Len(eqs) |->
                        <<eqs[i][1], (f[1] * eqs[i][2]) \div f[2]>>])]

\* (new_volume / self.volume) ** (1/3) for volumes given as fractions
CubeRootOfRatio(new, old) ==
    CHOOSE f \in Factors :
        f[1] * f[1] * f[1] * old[1] * new[2] = f[2] * f[2] * f[2] * new[1] * old[2]

\* Polyhedron.volume (setter), called with new_volume = volume * (p/q)^3
SetVolume(f) ==
    /\ status = "ok"
    /\ Divisible(vertices, equations, f[2])
    /\ \E old \in {<<volume(vertices, facets, equations), 6>>} :
         /\ old[1] > 0
         /\ \E new_volume \in {<<f[1] * f[1] * f[1] * old[1],
                                 f[2] * f[2] * f[2] * old[2]>>} :
              \E scale_factor \in {CubeRootOfRatio(new_volume, old)} :
                \E r \in {Rescaled(vertices, equations, scale_factor)} :
                   /\ InBox(r.vertices)
                   /\ vertices' = r.vertices
                   /\ equations' = r.equations
                   /\ call' = [arg |-> new_volume, raised |-> FALSE]
    /\ lastOp' = "volume"
    /\ prev' = Fields
    /\ UNCHANGED <<kind, status, facets, neighbors, merged>>
    /\ UNCHANGED <<request, shape, sphere>>
    /\ UNCHANGED <<polygon, ft>>

\* Polyhedron.volume (setter), called with new_volume = value <= 0, or on a
\* polyhedron whose volume is not positive: no check is made, the call
\* returns, and the vertices and offsets are multiplied by
\* (value / volume) ** (1/3), which is nan for a negative or undefined ratio,
\* inf for a ratio x/0 and 0 for a ratio 0
SetVolumeNonPositive(value) ==
    /\ status = "ok"
    /\ \E old \in {volume(vertices, facets, equations)} :
         /\ value <= 0 \/ old <= 0
         /\ value * old <= 0
         /\ IF value = 0 /\ old # 0
            THEN /\ status' = "collapsed"
                 /\ vertices' = Tup([i \in 1..Len(vertices) |-> Zero3])
                 /\ equations' = Tup([i \in 1..Len(equations) |-> <<equations[i][1], 0>>])
            ELSE /\ status' = "nan"
                 /\ UNCHANGED <<vertices, equations>>
    /\ call' = [arg |-> <<value, 1>>, raised |-> FALSE]
    /\ lastOp' = "volume"
    /\ prev' = Fields
    /\ UNCHANGED <<kind, facets, neighbors, merged>>
    /\ UNCHANGED <<request, shape, sphere>>
    /\ UNCHANGED <<polygon, ft>>

\* Polyhedron.circumsphere_radius (getter), squared, as a fraction
RECURSIVE MaxOver(_, _)
MaxOver(s, k) ==
    IF k = 1 THEN s[1]
    ELSE Only({IF s[k] > m THEN s[k] ELSE m : m \in {MaxOver(s, k - 1)}})

circumsphere_radius2(vs) ==
    Only({<<MaxOver(Tup([i \in 1..Len(vs) |->
                            Dot(VSub(VScale(c[2], vs[i]), c[1]),
                                VSub(VScale(c[2], vs[i]), c[1]))]), Len(vs)),
            c[2] * c[2]>> :
            c \in {center(vs)}})

\* new_radius / self.circumsphere_radius for squared radii given as fractions
RootOfRatio(new2, old2) ==
    CHOOSE f \in Factors :
        f[1] * f[1] * old2[1] * new2[2] = f[2] * f[2] * new2[1] * old2[2]

\* Polyhedron.circumsphere_radius (setter), called with radius * (p/q)
SetCircumsphereRadius(f) ==
    /\ status = "ok"
    /\ Divisible(vertices, equations, f[2])
    /\ \E old2 \in {circumsphere_radius2(vertices)} :
         \E new2 \in {<<f[1] * f[1] * old2[1], f[2] * f[2] * old2[2]>>} :
           \E scale_factor \in {RootOfRatio(new2, old2)} :
             \E r \in {Rescaled(vertices, equations, scale_factor)} :
                /\ InBox(r.vertices)
                /\ vertices' = r.vertices
                /\ equations' = r.equations
                /\ call' = [arg |-> new2, raised |-> FALSE]
    /\ lastOp' = "circumsphere_radius"
    /\ prev' = Fields
    /\ UNCHANGED <<kind, status, facets, neighbors, merged>>
    /\ UNCHANGED <<request, shape, sphere>>
    /\ UNCHANGED <<polygon, ft>>

\* np.arccos(np.dot(-n1, n2)) as <<s, n, d>>: the cosine of the angle is
\* s * sqrt(n / d), n / d in lowest terms
arccos_of(num, den) ==
    IF num = 0 THEN <<0, 0, 1>>
    ELSE <<IF num > 0 THEN 1 ELSE -1,
           (num * num) \div Gcd(num * num, den), den \div Gcd(num * num, den)>>

\* the dihedral returned for any two facets, neighbors or not
get_dihedral_unchecked(eqs, nb, a, b) ==
    [raised |-> FALSE,
     value |-> arccos_of(-Dot(eqs[a][1], eqs[b][1]),
                         Dot(eqs[a][1], eqs[a][1]) * Dot(eqs[b][1], eqs[b][1]))]

\* Polyhedron.get_dihedral(a, b)
get_dihedral(eqs, nb, a, b) ==
    IF ~Contains(nb[a], b)
    THEN [raised |-> TRUE, value |-> <<>>]
    ELSE [raised |-> FALSE,
          value |-> arccos_of(-Dot(eqs[a][1], eqs[b][1]),
                              Dot(eqs[a][1], eqs[a][1]) * Dot(eqs[b][1], eqs[b][1]))]

GetDihedral(a, b) ==
    /\ status = "ok"
    /\ \E r \in {get_dihedral(equations, neighbors, a, b)} :
          call' = [arg |-> <<a, b>>, raised |-> r.raised, value |-> r.value]
    /\ lastOp' = "get_dihedral"
    /\ prev' = Fields
    /\ UNCHANGED <<kind, status, vertices, facets, equations, neighbors, merged>>
    /\ UNCHANGED <<request, shape, sphere>>
    /\ UNCHANGED <<polygon, ft>>

\* the squared length of the edge between vertices e[1] and e[2]
edge_length2(vs, e) == Dot(VSub(vs[e[1]], vs[e[2]]), VSub(vs[e[1]], vs[e[2]]))

\* the edges of facet i that facet j has in the same direction
common_edges_forward(fs, i, j) ==
    Range(facet_to_edges(fs[i], FALSE)) \cap Range(facet_to_edges(fs[j], FALSE))

\* mean_curvature: f1.intersection(f2) for facets i and j
common_edges(fs, i, j) ==
    Range(facet_to_edges(fs[i], FALSE))
      \cap (Range(facet_to_edges(fs[j], FALSE)) \cup Range(facet_to_edges(fs[j], TRUE)))

\* the pairs (i, j) with j in neighbors[i], both orders of a pair counted
curvature_pairs_both(nb) ==
    {p \in (1..Len(nb)) \X (1..Len(nb)) : Contains(nb[p[1]], p[2])}

\* mean_curvature: the pairs (i, j) the loops do not skip
curvature_pairs(nb) ==
    {p \in (1..Len(nb)) \X (1..Len(nb)) : Contains(nb[p[1]], p[2]) /\ ~(p[2] < p[1])}

\* mean_curvature: length and phi of one pair, as <<length^2, phi>>
curvature_term(vs, fs, eqs, nb, p) ==
    <<edge_length2(vs, CHOOSE e \in common_edges(fs, p[1], p[2]) : TRUE),
      get_dihedral(eqs, nb, p[1], p[2]).value>>

\* ConvexPolyhedron.mean_curvature: sum(length * (pi - phi)) / (8 * pi), as
\* the number of times each <<length^2, phi>> is added, and the 8
mean_curvature(vs, fs, eqs, nb) ==
    Only({IF \E p \in pairs : Cardinality(common_edges(fs, p[1], p[2])) # 1
          THEN [raised |-> TRUE, value |-> <<>>]
          ELSE [raised |-> FALSE,
                value |-> [norm |-> 8,
                           terms |-> [t \in {curvature_term(vs, fs, eqs, nb, p) :
                                                p \in pairs} |->
                                        Cardinality({p \in pairs :
                                            curvature_term(vs, fs, eqs, nb, p) = t})]]] :
            pairs \in {curvature_pairs(nb)}})

MeanCurvature ==
    /\ status = "ok"
    /\ kind = "ConvexPolyhedron"
    /\ \E r \in {mean_curvature(vertices, facets, equations, neighbors)} :
          call' = [arg |-> <<>>, raised |-> r.raised, value |-> r.value]
    /\ lastOp' = "mean_curvature"
    /\ prev' = Fields
    /\ UNCHANGED <<kind, status, vertices, facets, equations, neighbors, merged>>
    /\ UNCHANGED <<request, shape, sphere>>
    /\ UNCHANGED <<polygon, ft>>

Next ==
    \/ Construct
    \/ MergeFacets
    \/ \E delta \in Deltas : SetCenter(delta)
    \/ \E f \in Factors : SetVolume(f)
    \/ \E value \in {-1, 0, 1} : SetVolumeNonPositive(value)
    \/ \E f \in Factors : SetCircumsphereRadius(f)

Spec == Init /\ [][Next]_vars

\* construction and merging, with the queries on facet pairs
NextDihedral ==
    \/ Construct
    \/ MergeFacets
    \/ \E a, b \in 1..Len(facets) : GetDihedral(a, b)
    \/ MeanCurvature

DihedralSpec == Init /\ [][NextDihedral]_vars

\* the polyhedron fields while no Polyhedron has been constructed
NoFields ==
    [vertices |-> <<>>, facets |-> <<>>, equations |-> <<>>,
     neighbors |-> <<>>, merged |-> FALSE]

\* a caller holds a dict and a dimension; no shape exists yet
GsdInit ==
    /\ kind = "none"
    /\ status = "none"
    /\ vertices = <<>>
    /\ facets = <<>>
    /\ equations = <<>>
    /\ neighbors = <<>>
    /\ merged = FALSE
    /\ lastOp = "none"
    /\ prev = NoFields
    /\ call = [arg |-> <<>>, raised |-> FALSE]
    /\ \E params \in Params : \E ndim \in {2, 3} :
         request = [made |-> TRUE, params |-> params, ndim |-> ndim,
                    origin |-> "caller"]
    /\ shape = NoShape
    /\ sphere = NoSphere
    /\ polygon = NoPolygon
    /\ ft = NoFT

\* from_gsd_type_shapes(params, ndim), the constructor it calls included
FromGsdTypeShapes ==
    /\ request.made
    /\ ~shape.called
    /\ \E r \in {from_gsd_type_shapes(request.params, request.ndim)} :
         IF r.class \in {"Polyhedron", "ConvexPolyhedron"}
         THEN \E fs \in (IF r.class = "Polyhedron" THEN {r.args[2]}
                         ELSE Hulls(r.args[1])) :
                \E c \in {constructed(r.class, r.args[1], fs)} :
                   /\ shape' = IF c.ok THEN r ELSE Raise("ValueError")
                   /\ kind' = r.class
                   /\ status' = IF c.ok THEN "ok" ELSE "error"
                   /\ vertices' = r.args[1]
                   /\ facets' = c.facets
                   /\ equations' = c.equations
                   /\ neighbors' = c.neighbors
                   /\ merged' = c.merged
                   /\ lastOp' = "init"
                   /\ prev' = [NoFields EXCEPT !.vertices = r.args[1], !.facets = fs]
                   /\ call' = [arg |-> <<>>, raised |-> ~c.ok]
                   /\ UNCHANGED sphere
         ELSE /\ shape' = r
              /\ sphere' = IF r.class = "Sphere"
                           THEN [exists |-> TRUE,
                                 radius |-> radius_of(r.args[1][1], r.args[1][2]),
                                 center |-> Zero3]
                           ELSE sphere
              /\ UNCHANGED <<kind, status, vertices, facets, equations, neighbors,
                             merged, lastOp, prev, call>>
    /\ UNCHANGED request
    /\ UNCHANGED <<polygon, ft>>

\* p.gsd_shape_spec read from a ConvexPolyhedron p and handed to the next
\* call of from_gsd_type_shapes
GsdShapeSpec ==
    /\ kind = "ConvexPolyhedron"
    /\ status = "ok"
    /\ shape.called
    /\ \E ndim \in {2, 3} :
         request' = [made |-> TRUE, params |-> gsd_shape_spec(vertices),
                     ndim |-> ndim, origin |-> "gsd_shape_spec"]
    /\ shape' = NoShape
    /\ UNCHANGED <<kind, status, vertices, facets, equations, neighbors,
                   merged, lastOp, prev, call, sphere>>
    /\ UNCHANGED <<polygon, ft>>

NextGsd ==
    \/ FromGsdTypeShapes
    \/ GsdShapeSpec
    \/ \E delta \in Deltas : SetCenter(delta)

GsdSpec == GsdInit /\ [][NextGsd]_vars

\* the values a caller passes for a radius, a volume or a surface area
SphereValues == (-1)..MaxValue

SphereCenters == {Zero3, <<1, -2, 3>>}

\* no Sphere has been constructed
SphereInit ==
    /\ kind = "Sphere"
    /\ status = "none"
    /\ vertices = <<>>
    /\ facets = <<>>
    /\ equations = <<>>
    /\ neighbors = <<>>
    /\ merged = FALSE
    /\ lastOp = "none"
    /\ prev = NoSphere
    /\ call = [arg |-> 0, raised |-> FALSE]
    /\ request = NoRequest
    /\ shape = NoShape
    /\ sphere = NoSphere
    /\ polygon = NoPolygon
    /\ ft = NoFT

\* Sphere.radius (setter) with a radius that is positive or not
set_radius(s, positive, r) ==
    IF positive THEN [raised |-> FALSE, sphere |-> [s EXCEPT !.radius = r]]
    ELSE [raised |-> TRUE, sphere |-> s]

\* Sphere.__init__
NewSphere(radius, c) ==
    /\ kind = "Sphere"
    /\ ~sphere.exists
    /\ IF radius > 0
       THEN /\ sphere' = [exists |-> TRUE, radius |-> radius_of(radius, 1),
                          center |-> c]
            /\ call' = [arg |-> radius, raised |-> FALSE]
       ELSE /\ sphere' = sphere
            /\ call' = [arg |-> radius, raised |-> TRUE]
    /\ lastOp' = "Sphere"
    /\ prev' = sphere
    /\ UNCHANGED <<kind, status, vertices, facets, equations, neighbors, merged>>
    /\ UNCHANGED <<request, shape>>
    /\ UNCHANGED <<polygon, ft>>

\* Sphere.radius (setter)
SetSphereRadius(radius) ==
    /\ sphere.exists
    /\ \E r \in {set_radius(sphere, radius > 0,
                            IF radius > 0 THEN radius_of(radius, 1) ELSE <<0, 1, 0>>)} :
         /\ sphere' = r.sphere
         /\ call' = [arg |-> radius, raised |-> r.raised]
    /\ lastOp' = "Sphere.radius"
    /\ prev' = sphere
    /\ UNCHANGED <<kind, status, vertices, facets, equations, neighbors, merged>>
    /\ UNCHANGED <<request, shape>>
    /\ UNCHANGED <<polygon, ft>>

\* Sphere.volume (setter)
SetSphereVolume(value) ==
    /\ sphere.exists
    /\ IF value > 0
       THEN \E r \in {set_radius(sphere, TRUE, radius_of_volume(value))} :
              /\ sphere' = r.sphere
              /\ call' = [arg |-> value, raised |-> r.raised]
       ELSE /\ sphere' = sphere
            /\ call' = [arg |-> value, raised |-> TRUE]
    /\ lastOp' = "Sphere.volume"
    /\ prev' = sphere
    /\ UNCHANGED <<kind, status, vertices, facets, equations, neighbors, merged>>
    /\ UNCHANGED <<request, shape>>
    /\ UNCHANGED <<polygon, ft>>

\* Sphere.surface_area (setter)
SetSphereSurfaceArea(area) ==
    /\ sphere.exists
    /\ IF area > 0
       THEN \E r \in {set_radius(sphere, TRUE, radius_of_area(area))} :
              /\ sphere' = r.sphere
              /\ call' = [arg |-> area, raised |-> r.raised]
       ELSE /\ sphere' = sphere
            /\ call' = [arg |-> area, raised |-> TRUE]
    /\ lastOp' = "Sphere.surface_area"
    /\ prev' = sphere
    /\ UNCHANGED <<kind, status, vertices, facets, equations, neighbors, merged>>
    /\ UNCHANGED <<request, shape>>
    /\ UNCHANGED <<polygon, ft>>

\* Sphere.center (setter)
SetSphereCenter(c) ==
    /\ sphere.exists
    /\ sphere' = [sphere EXCEPT !.center = c]
    /\ call' = [arg |-> c, raised |-> FALSE]
    /\ lastOp' = "Sphere.center"
    /\ prev' = sphere
    /\ UNCHANGED <<kind, status, vertices, facets, equations, neighbors, merged>>
    /\ UNCHANGED <<request, shape>>
    /\ UNCHANGED <<polygon, ft>>

NextSphere ==
    \/ \E radius \in SphereValues : \E c \in SphereCenters : NewSphere(radius, c)
    \/ \E radius \in SphereValues : SetSphereRadius(radius)
    \/ \E value \in SphereValues : SetSphereVolume(value)
    \/ \E area \in SphereValues : SetSphereSurfaceArea(area)
    \/ \E c \in SphereCenters : SetSphereCenter(c)

SphereSpec == SphereInit /\ [][NextSphere]_vars

\* the points is_inside is asked about
Points ==
    {Zero3, <<1, 0, 0>>, <<1, 1, 0>>, <<1, 1, 1>>, <<2, 0, 0>>, <<0, 0, 2>>,
     <<-1, -1, -1>>, <<0, 1, -1>>, <<2, 1, 1>>, <<-1, 0, 1>>}

\* Polyhedron._point_plane_distances: the signed distance of x to the plane
\* of every facet, positive on the side the normal points to, each times
\* the length of the integer normal
point_plane_distances(eqs, x) ==
    Tup([i \in 1..Len(eqs) |-> Dot(eqs[i][1], x) - eqs[i][2]])

\* points on the boundary counted as outside
is_inside_strict(eqs, x) ==
    ~\E i \in 1..Len(eqs) : point_plane_distances(eqs, x)[i] >= 0

\* ConvexPolyhedron.is_inside, for one point
is_inside(eqs, x) ==
    ~\E i \in 1..Len(eqs) : point_plane_distances(eqs, x)[i] > 0

\* ConvexPolyhedron.is_inside
IsInside(x) ==
    /\ kind = "ConvexPolyhedron"
    /\ status = "ok"
    /\ call' = [arg |-> x, raised |-> FALSE, value |-> is_inside(equations, x)]
    /\ lastOp' = "is_inside"
    /\ prev' = Fields
    /\ UNCHANGED <<kind, status, vertices, facets, equations, neighbors, merged>>
    /\ UNCHANGED <<request, shape, sphere>>
    /\ UNCHANGED <<polygon, ft>>

\* the points Sphere.is_inside is asked about, relative to the center
Offsets ==
    {Zero3, <<1, 0, 0>>, <<0, -2, 0>>, <<1, 1, 1>>, <<2, 2, 1>>, <<0, 0, 3>>,
     <<3, 1, 0>>}

\* 25/8 < pi < 22/7
PiLower == <<25, 8>>
PiUpper == <<22, 7>>

RECURSIVE Power(_, _)
Power(b, k) == IF k = 0 THEN 1 ELSE b * Power(b, k - 1)

\* dist2^3 <= r^6 = (n/d) * pi^(-e), with the bound of pi in the place of pi
WithinRadius(r, dist2, bound) ==
    dist2 = 0
    \/ dist2 * dist2 * dist2 * r[2] * Power(bound[1], r[3])
          <= r[1] * Power(bound[2], r[3])

\* Sphere.is_inside, for one point:
\* np.linalg.norm(points - self.center) <= self.radius
sphere_is_inside(s, x) ==
    Only({WithinRadius(s.radius, Dot(v, v), PiUpper) : v \in {VSub(x, s.center)}})

\* Sphere.is_inside
SphereIsInside(offset) ==
    /\ sphere.exists
    /\ \E x \in {VAdd(sphere.center, offset)} :
         call' = [arg |-> x, raised |-> FALSE, value |-> sphere_is_inside(sphere, x)]
    /\ lastOp' = "Sphere.is_inside"
    /\ prev' = sphere
    /\ UNCHANGED <<kind, status, vertices, facets, equations, neighbors, merged>>
    /\ UNCHANGED <<request, shape, sphere>>
    /\ UNCHANGED <<polygon, ft>>

\* a ConvexPolyhedron about to be constructed, or no Sphere yet
InsideInit == (Init /\ kind = "ConvexPolyhedron") \/ SphereInit

NextInside ==
    \/ Construct
    \/ \E x \in Points : IsInside(x)
    \/ \E radius \in SphereValues : \E c \in SphereCenters : NewSphere(radius, c)
    \/ \E radius \in SphereValues : SetSphereRadius(radius)
    \/ \E value \in SphereValues : SetSphereVolume(value)
    \/ \E area \in SphereValues : SetSphereSurfaceArea(area)
    \/ \E offset \in Offsets : SphereIsInside(offset)

InsideSpec == InsideInit /\ [][NextInside]_vars

----------------------------------------------------------------------------
(* Polygon, as a shape of its own: the constructor keeps the points in the *)
(* order given and stores the normal of the first three; reorder_verts     *)
(* sorts them by angle about their centroid.                               *)

\* points of the plane are given the third coordinate 0
to_3d(pts) ==
    Tup([k \in 1..Len(pts) |-> IF Len(pts[k]) = 2 THEN <<pts[k][1], pts[k][2], 0>>
                               ELSE pts[k]])

\* the permutation that sorts the points by their angle about the centroid,
\* measured from the first point counterclockwise about nrm
reorder_order(pts, nrm) ==
    Only({Tup([p \in 1..Len(w) |->
                 CHOOSE k \in 1..Len(w) :
                    Cardinality({j \in 1..Len(w) :
                        AngleBefore(w[1], w[j], w[k], nrm)}) = p - 1]) :
            w \in {PolygonCentered(pts)}})

\* the vertices sorted counterclockwise whatever is asked
reorder_verts_counterclockwise(pts, nrm, clockwise) ==
    Only({Tup([p \in 1..Len(ord) |-> pts[ord[p]]]) : ord \in {reorder_order(pts, nrm)}})

\* Polygon.reorder_verts(clockwise): the vertices afterwards
reorder_verts(pts, nrm, clockwise) ==
    Only({Tup([p \in 1..Len(ord) |-> pts[ord[p]]]) :
            ord \in {reorder_order(pts, IF clockwise THEN VScale(-1, nrm) ELSE nrm)}})

\* Polygon.signed_area, times twice the length of the stored normal
signed_area(pts, nrm) == Dot(Shoelace(pts, Len(pts)), nrm)

\* Polygon.area, in the same unit
polygon_area(pts, nrm) == Abs(signed_area(pts, nrm))

\* the square of the tests, a unit further on each axis, a tilted
\* rectangle, a dart and a C, which its centroid does not see all of
TestSquare == <<<<0, 0, 0>>, <<0, 1, 0>>, <<1, 1, 0>>, <<1, 0, 0>>>>

TiltedRectangle == <<<<0, 0, 0>>, <<1, 0, 1>>, <<1, 2, 1>>, <<0, 2, 0>>>>

CShape ==
    <<<<0, 0, 0>>, <<4, 0, 0>>, <<4, 1, 0>>, <<1, 1, 0>>,
      <<1, 3, 0>>, <<4, 3, 0>>, <<4, 4, 0>>, <<0, 4, 0>>>>

\* the points from position k on, then those before it
Rolled(pts, k) ==
    Tup([i \in 1..Len(pts) |-> pts[((i + k - 2) % Len(pts)) + 1]])

Flat(pts) == Tup([k \in 1..Len(pts) |-> <<pts[k][1], pts[k][2]>>])

Shifted(pts, d) == Tup([k \in 1..Len(pts) |-> VAdd(pts[k], d)])

\* the point lists Polygon(vertices) is called with
PolygonInputs ==
    LET good == UNION {{Rolled(pts, k), Reverse(Rolled(pts, k))} :
                          pts \in {TestSquare, Shifted(TestSquare, <<2, 2, 2>>),
                                   TiltedRectangle, SquareV},
                          k \in 1..4}
                \cup {DartV, CShape, Rolled(CShape, 8)}
    IN  good
        \cup {Flat(pts) : pts \in {TestSquare, DartV, Reverse(TestSquare)}}
        \cup {TestSquare \o <<TestSquare[1]>>,
              Flat(TestSquare) \o <<<<0, 0>>>>,
              <<<<1, 1>>, <<1, 1>>, <<1, 1>>, <<1, 1>>>>,
              <<<<0, 0, 0>>, <<0, 1, 0>>>>,
              <<<<0, 0, 0>>, <<0, 1, 0>>, <<0, 0, 0>>>>,
              <<<<0, 0, 1>>, <<0, 1, 0>>, <<1, 1, 0>>, <<1, 0, 0>>>>,
              <<<<0, 0, 0>>, <<0, 1, 0>>, <<1, 1, 0>>, <<1, 0, 1>>>>}

\* no Polygon has been constructed
PolygonInit ==
    /\ kind = "Polygon"
    /\ status = "none"
    /\ vertices = <<>>
    /\ facets = <<>>
    /\ equations = <<>>
    /\ neighbors = <<>>
    /\ merged = FALSE
    /\ lastOp = "none"
    /\ prev = NoPolygon
    /\ call = [arg |-> <<>>, raised |-> FALSE]
    /\ request = NoRequest
    /\ shape = NoShape
    /\ sphere = NoSphere
    /\ polygon = NoPolygon
    /\ ft = NoFT

\* Polygon.__init__
NewPolygon(pts) ==
    /\ kind = "Polygon"
    /\ ~polygon.exists
    /\ \E v \in {to_3d(pts)} :
         IF PolygonValid(v)
         THEN /\ polygon' = [exists |-> TRUE, vertices |-> v, normal |-> PolygonNormal(v)]
              /\ call' = [arg |-> pts, raised |-> FALSE]
         ELSE /\ polygon' = polygon
              /\ call' = [arg |-> pts, raised |-> TRUE]
    /\ lastOp' = "Polygon"
    /\ prev' = polygon
    /\ UNCHANGED <<kind, status, vertices, facets, equations, neighbors, merged>>
    /\ UNCHANGED <<request, shape, sphere, ft>>

\* Polygon.reorder_verts
ReorderVerts(clockwise) ==
    /\ polygon.exists
    /\ polygon' = [polygon EXCEPT
                     !.vertices = reorder_verts(polygon.vertices, polygon.normal,
                                                clockwise)]
    /\ call' = [arg |-> clockwise, raised |-> FALSE]
    /\ lastOp' = "reorder_verts"
    /\ prev' = polygon
    /\ UNCHANGED <<kind, status, vertices, facets, equations, neighbors, merged>>
    /\ UNCHANGED <<request, shape, sphere, ft>>

NextPolygon ==
    \/ \E pts \in PolygonInputs : NewPolygon(pts)
    \/ \E clockwise \in BOOLEAN : ReorderVerts(clockwise)

PolygonSpec == PolygonInit /\ [][NextPolygon]_vars

----------------------------------------------------------------------------
(* FTpolyhedron: the form factor of a polyhedron at the points K           *)

(* A quaternion is written twice over, <<2w, 2x, 2y, 2z>>, so that the     *)
(* Hurwitz units (+-1 +-i +-j +-k) / 2 are integer tuples; each unit turns *)
(* an integer vector into an integer vector.                               *)
Identity == <<2, 0, 0, 0>>

\* rowan.conjugate
conjugate(q) == <<q[1], -q[2], -q[3], -q[4]>>

\* rowan.inverse: the conjugate over the squared norm, which is 1 (4 in the
\* doubled components) for a unit quaternion
inverse(q) ==
    Only({<<(4 * c[1]) \div n, (4 * c[2]) \div n, (4 * c[3]) \div n,
            (4 * c[4]) \div n>> :
            c \in {conjugate(q)},
            n \in {q[1] * q[1] + q[2] * q[2] + q[3] * q[3] + q[4] * q[4]}})

\* rowan.multiply: the Hamilton product, of the components as written
multiply(a, b) ==
    <<a[1] * b[1] - a[2] * b[2] - a[3] * b[3] - a[4] * b[4],
      a[1] * b[2] + a[2] * b[1] + a[3] * b[4] - a[4] * b[3],
      a[1] * b[3] - a[2] * b[4] + a[3] * b[1] + a[4] * b[2],
      a[1] * b[4] + a[2] * b[3] - a[3] * b[2] + a[4] * b[1]>>

\* rowan.rotate(q, v) = (q v q*)[1:]; the two doubled factors are divided out
rotate(q, v) ==
    Only({<<p[2] \div 4, p[3] \div 4, p[4] \div 4>> :
            p \in {multiply(q, multiply(<<0, v[1], v[2], v[3]>>, conjugate(q)))}})

\* the orientations set_rq is given: no turn, the half turn about x, and the
\* two third turns about the diagonal (1, 1, 1)
Orientations == {Identity, <<0, 2, 0, 0>>, <<1, 1, 1, 1>>, <<1, -1, -1, -1>>}

Positions == {Zero3, <<0, 1, 2>>}

\* the k-space points an FTpolyhedron is constructed with
KPoints == {<<<<1, 2, 3>>>>, <<<<0, 0, 0>>>>, <<<<1, 0, 0>>, <<1, 2, 3>>>>,
            <<<<0, 1, 1>>, <<0, 0, 0>>>>}

Lists(S) == UNION {[1..n -> S] : n \in 1..MaxParticles}

(* A sum of terms is the function from each term to the number of times it *)
(* was added. A term density * f * exp(-i k.r') is written <<k, k.r'>>: f  *)
(* is the form factor of the polyhedron at k (its volume when k is 0).     *)
NoSum == <<>>

Plus(sum, term) ==
    IF term \in DOMAIN sum THEN [sum EXCEPT ![term] = @ + 1]
    ELSE sum @@ (term :> 1)

\* the assignment to k inside the particle loop left out: every particle is
\* evaluated at the row of K
particle_loop_own(k, position, orientation, j, sum) ==
    LET RECURSIVE loop(_, _)
        loop(n, acc) ==
            IF n > Len(position) THEN acc
            ELSE loop(n + 1,
                      Only({Plus(acc, <<kq, Dot(kq, rotate(inverse(orientation[n]),
                                                           position[n]))>>) :
                              kq \in {rotate(inverse(orientation[n]), k)}}))
    IN loop(j, sum)

\* the inner loop of _compute_ft from particle j on: k is assigned
\* rowan.rotate(rowan.inverse(q), k) and the next particle starts from it
RECURSIVE particle_loop(_, _, _, _, _)
particle_loop(k, position, orientation, j, sum) ==
    IF j > Len(position) \/ j > Len(orientation) THEN sum
    ELSE Only({particle_loop(kq, position, orientation, j + 1,
                 Plus(sum, <<kq, Dot(kq, rotate(inverse(orientation[j]),
                                                position[j]))>>)) :
                 kq \in {rotate(inverse(orientation[j]), k)}})

\* FTpolyhedron._compute_ft: S
compute_ft(K, position, orientation) ==
    Tup([i \in 1..Len(K) |-> particle_loop(K[i], position, orientation, 1, NoSum)])

\* _FTbase.__init__ through FTpolyhedron.__init__
FtInit ==
    /\ kind = "FTpolyhedron"
    /\ status = "none"
    /\ vertices = <<>>
    /\ facets = <<>>
    /\ equations = <<>>
    /\ neighbors = <<>>
    /\ merged = FALSE
    /\ lastOp = "none"
    /\ prev = NoFT
    /\ call = [arg |-> <<>>, raised |-> FALSE]
    /\ request = NoRequest
    /\ shape = NoShape
    /\ sphere = NoSphere
    /\ polygon = NoPolygon
    /\ \E K \in KPoints :
          ft = [K |-> K, position |-> <<Zero3>>, orientation |-> <<Identity>>,
                S |-> <<>>]

\* _FTbase.set_rq, called before the transform is computed
SetRq(position, orientation) ==
    /\ kind = "FTpolyhedron"
    /\ ft.S = <<>>
    /\ IF Len(position) # Len(orientation)
       THEN /\ call' = [arg |-> <<>>, raised |-> TRUE]
            /\ UNCHANGED ft
       ELSE /\ call' = [arg |-> <<>>, raised |-> FALSE]
            /\ ft' = [ft EXCEPT !.position = position, !.orientation = orientation]
    /\ lastOp' = "set_rq"
    /\ UNCHANGED prev
    /\ UNCHANGED <<kind, status, vertices, facets, equations, neighbors, merged>>
    /\ UNCHANGED <<request, shape, sphere, polygon>>

\* _FTbase.compute
Compute ==
    /\ kind = "FTpolyhedron"
    /\ ft' = [ft EXCEPT !.S = compute_ft(ft.K, ft.position, ft.orientation)]
    /\ call' = [arg |-> <<>>, raised |-> FALSE]
    /\ lastOp' = "compute"
    /\ UNCHANGED prev
    /\ UNCHANGED <<kind, status, vertices, facets, equations, neighbors, merged>>
    /\ UNCHANGED <<request, shape, sphere, polygon>>

NextFt ==
    \/ \E position \in Lists(Positions) : \E orientation \in Lists(Orientations) :
          SetRq(position, orientation)
    \/ Compute

FtSpec == FtInit /\ [][NextFt]_vars

----------------------------------------------------------------------------
(* Vocabulary of the properties *)

Constructed == status = "ok" /\ lastOp # "merge_facets_raised"

\* the edges of a facet as unordered pairs, the closing edge included
UndirectedEdges(facet) ==
    {{facet[k], facet[IF k = Len(facet) THEN 1 ELSE k + 1]} : k \in 1..Len(facet)}

DirectedEdges(facet) ==
    {<<facet[k], facet[IF k = Len(facet) THEN 1 ELSE k + 1]>> : k \in 1..Len(facet)}

FacetsWithEdge(fs, e) == {i \in 1..Len(fs) : e \in UndirectedEdges(fs[i])}

AllEdges(fs) == UNION {UndirectedEdges(fs[i]) : i \in 1..Len(fs)}

\* a closed surface: every edge belongs to exactly two facets
ClosedSurface(fs) == \A e \in AllEdges(fs) : Cardinality(FacetsWithEdge(fs, e)) = 2

NonManifold(fs) == \E e \in AllEdges(fs) : Cardinality(FacetsWithEdge(fs, e)) > 2

\* the facets reachable from facet 1 through the neighbor lists
RECURSIVE ReachableFrom(_, _)
ReachableFrom(nb, S) ==
    Only({IF T = S THEN S ELSE ReachableFrom(nb, T) :
            T \in {S \cup UNION {Range(nb[i]) : i \in S}}})

ConnectedGraph(nb) == ReachableFrom(nb, {1}) = 1..Len(nb)

\* facets i and j run along some common edge in the same direction
SameDirection(fs, i, j) == DirectedEdges(fs[i]) \cap DirectedEdges(fs[j]) # {}

\* the arguments of the constructor, while the last call is the constructor
InputValid ==
    \A i \in 1..Len(prev.facets) : PolygonValid(FacetPoints(vertices, prev.facets[i]))

InputReordered ==
    Tup([i \in 1..Len(prev.facets) |-> reorder_facet(vertices, prev.facets[i])])

\* all vertices lie on one side of the plane of every facet
ConvexSolid(vs, fs) ==
    \A i \in 1..Len(fs) :
        \E eq \in {facet_equation(vs, fs[i])} :
            \/ \A v \in Range(vs) : Dot(eq[1], v) <= eq[2]
            \/ \A v \in Range(vs) : Dot(eq[1], v) >= eq[2]

----------------------------------------------------------------------------
(* C1: on a closed surface with a connected neighbor graph, any two        *)
(* neighboring facets of a constructed polyhedron traverse their shared    *)
(* edge in opposite directions, whatever the windings of the input were.   *)
C1_NeighborsOpposite ==
    (Constructed /\ ClosedSurface(facets) /\ ConnectedGraph(neighbors))
    => \A i \in 1..Len(facets) : \A j \in Range(neighbors[i]) :
          ~SameDirection(facets, i, j)

\* a closed connected polyhedron constructed from facets of which two
\* neighbors ran along their shared edge in the same direction
C1_Witness ==
    /\ Constructed /\ lastOp = "init" /\ kind = "Polyhedron"
    /\ ClosedSurface(facets) /\ ConnectedGraph(neighbors)
    /\ \E i \in 1..Len(prev.facets) : \E j \in Range(neighbors[i]) :
          SameDirection(prev.facets, i, j)

(* C2: when sort_facets has completed, 6 * volume computed from the stored *)
(* plane equations is not negative; the facets and equations are those of  *)
(* the orientation pass, or all of them reversed and negated, the latter   *)
(* exactly when the volume after the orientation pass was negative; and on *)
(* a closed convex polyhedron every stored normal points away from the     *)
(* centroid (normal . centroid < offset).                                  *)
AllOrNone(r) ==
    Only({/\ eqs = find_equations(vertices, r.oriented)
          /\ IF volume(vertices, r.oriented, eqs) < 0
             THEN /\ \A i \in 1..Len(facets) : facets[i] = Reverse(r.oriented[i])
                  /\ \A i \in 1..Len(facets) : equations[i] = NegateEquation(eqs[i])
             ELSE facets = r.oriented /\ equations = eqs :
            eqs \in {find_equations(vertices, r.oriented)}})

NormalsOutward ==
    \E c \in {center(vertices)} :
        \A i \in 1..Len(facets) : Dot(equations[i][1], c[1]) < c[2] * equations[i][2]

C2_VolumeNonNegative ==
    (Constructed /\ lastOp \in {"init", "merge_facets"})
    => /\ volume(vertices, facets, equations) >= 0
       /\ (lastOp = "init" /\ kind = "Polyhedron")
            => AllOrNone(sort_facets(vertices, prev.facets))
       /\ lastOp = "merge_facets"
            => AllOrNone(sort_facets(vertices,
                    merged_facets(prev.facets, prev.equations, prev.neighbors)))
       /\ (ClosedSurface(facets) /\ ConnectedGraph(neighbors)
             /\ ConvexSolid(vertices, facets)) => NormalsOutward

\* a convex polyhedron whose facets were all reversed by the last step
C2_Witness ==
    /\ Constructed /\ lastOp = "init" /\ kind = "Polyhedron"
    /\ ClosedSurface(facets) /\ ConvexSolid(vertices, facets)
    /\ \E r \in {sort_facets(vertices, prev.facets)} :
          /\ volume(vertices, r.oriented, find_equations(vertices, r.oriented)) < 0
          /\ facets # r.oriented
    /\ volume(vertices, facets, equations) > 0

(* C3: constructing a Polyhedron whose facet neighbor graph is not         *)
(* connected fails with an error.                                          *)
C3_DisconnectedFails ==
    (lastOp = "init" /\ InputValid /\ ~ConnectedGraph(find_neighbors(InputReordered)))
    => status = "error"

(* C4: constructing a Polyhedron in which some edge is shared by more than *)
(* two facets fails with an error.                                         *)
C4_NonManifoldFails ==
    (lastOp = "init" /\ InputValid /\ NonManifold(InputReordered))
    => status = "error"

(* C5: j is listed in neighbors[i] iff i # j and the cyclic edge lists of  *)
(* facets i and j have a common edge in the same or the reverse direction; *)
(* the relation is symmetric and no neighbor is listed twice.              *)
C5_NeighborsShareEdge ==
    Constructed =>
        /\ Len(neighbors) = Len(facets)
        /\ \A i, j \in 1..Len(facets) :
              Contains(neighbors[i], j)
                <=> (i # j /\ UndirectedEdges(facets[i]) \cap UndirectedEdges(facets[j]) # {})
        /\ \A i, j \in 1..Len(facets) :
              Contains(neighbors[i], j) <=> Contains(neighbors[j], i)
        /\ \A i \in 1..Len(facets) :
              Cardinality(Range(neighbors[i])) = Len(neighbors[i])

\* two facets that share exactly one vertex and are not neighbors, and two
\* neighbors whose common edge closes the cycle of one of them
C5_Witness ==
    /\ Constructed
    /\ \E i, j \in 1..Len(facets) :
          /\ i # j
          /\ Cardinality(Range(facets[i]) \cap Range(facets[j])) = 1
          /\ ~Contains(neighbors[i], j)
    /\ \E i \in 1..Len(facets) : \E j \in Range(neighbors[i]) :
          UndirectedEdges(facets[i]) \cap UndirectedEdges(facets[j])
            = {{facets[i][Len(facets[i])], facets[i][1]}}

----------------------------------------------------------------------------
\* the pairs linked by a chain of pairs of R
RECURSIVE Chains(_)
Chains(R) ==
    Only({IF T = R THEN R ELSE Chains(T) :
            T \in {R \cup {<<x[1][1], x[2][2]>> : x \in {y \in R \X R : y[1][2] = y[2][1]}}}})

SamePlane(eqs, i, j) == eqs[i] = eqs[j] \/ eqs[i] = NegateEquation(eqs[j])

\* facets i and j are neighbors with equal or negated plane equations
Coplanar(eqs, nb, i, j) ==
    (Contains(nb[i], j) \/ Contains(nb[j], i)) /\ SamePlane(eqs, i, j)

\* the classes of facets linked by chains of coplanar neighbors
MergeClasses(eqs, nb) ==
    Only({{{j \in 1..Len(eqs) : <<i, j>> \in linked} : i \in 1..Len(eqs)} :
            linked \in {Chains({<<i, i>> : i \in 1..Len(eqs)}
                          \cup {p \in (1..Len(eqs)) \X (1..Len(eqs)) :
                                  Coplanar(eqs, nb, p[1], p[2])})}})

VertexSets(fs) == {Range(fs[i]) : i \in 1..Len(fs)}

MergedFrom(fs, eqs, nb) ==
    \E classes \in {MergeClasses(eqs, nb)} :
        /\ Len(facets) = Cardinality(classes)
        /\ VertexSets(facets) = {UNION {Range(fs[i]) : i \in class} : class \in classes}

(* C6: merge_facets puts two facets into one merged facet iff a chain of   *)
(* neighbors whose plane equations are equal or negated links them; each   *)
(* merged facet holds exactly the vertices of its members, and coplanar    *)
(* facets with no such chain stay separate.                                *)
C6_MergePartition ==
    /\ lastOp = "merge_facets" => MergedFrom(prev.facets, prev.equations, prev.neighbors)
    /\ (lastOp = "init" /\ kind = "ConvexPolyhedron" /\ status = "ok")
         => \E r \in {sort_facets(vertices, prev.facets)} :
               MergedFrom(r.facets, r.equations, r.neighbors)

\* a merge that joined two facets and kept apart two facets of the same
\* plane that no chain links
C6_Witness ==
    /\ lastOp = "merge_facets"
    /\ Len(facets) < Len(prev.facets)
    /\ \E classes \in {MergeClasses(prev.equations, prev.neighbors)} :
          \E c1, c2 \in classes :
             /\ c1 # c2
             /\ \E i \in c1, j \in c2 : SamePlane(prev.equations, i, j)

(* C7: a merge_facets call on a polyhedron on which merge_facets has       *)
(* already been called leaves the number of facets and the set of facet    *)
(* vertex sets unchanged.                                                  *)
C7_MergeIdempotent ==
    (lastOp = "merge_facets" /\ prev.merged)
    => /\ Len(facets) = Len(prev.facets)
       /\ VertexSets(facets) = VertexSets(prev.facets)

\* a second merge of a polyhedron whose first merge joined facets
C7_Witness ==
    /\ lastOp = "merge_facets" /\ prev.merged
    /\ \E i \in 1..Len(facets) : Len(facets[i]) > 3

(* C8: after any sequence of merge_facets and assignments to center,       *)
(* volume and circumsphere_radius, every vertex of every facet lies on the *)
(* facet's stored plane, there is one equation and one neighbor list per   *)
(* facet, and volume and surface_area equal those of a Polyhedron freshly  *)
(* constructed on the current vertices and facets.                         *)
C8_NoStaleState ==
    Constructed =>
        /\ Len(equations) = Len(facets)
        /\ Len(neighbors) = Len(facets)
        /\ \A i \in 1..Len(facets) : \A k \in Range(facets[i]) :
              Dot(equations[i][1], vertices[k]) = equations[i][2]
        /\ \E fresh \in {sort_facets(vertices, facets)} :
              /\ fresh.ok
              /\ volume(vertices, facets, equations)
                   = volume(vertices, fresh.facets, fresh.equations)
              /\ surface_area(vertices, facets) = surface_area(vertices, fresh.facets)

(* C9: after construction and after every merge_facets call every facet   *)
(* has at least 3 vertex indices, pairwise distinct, each the index of a   *)
(* vertex.                                                                 *)
C9_FacetsWellFormed ==
    status = "ok" =>
        \A i \in 1..Len(facets) :
            /\ Len(facets[i]) >= 3
            /\ Cardinality(Range(facets[i])) = Len(facets[i])
            /\ Range(facets[i]) \subseteq 1..Len(vertices)

\* a merge that produced a facet of more than 3 vertices
C9_Witness ==
    /\ status = "ok" /\ lastOp = "merge_facets" /\ ~prev.merged
    /\ \E i \in 1..Len(facets) : Len(facets[i]) > 3

(* C10: a ConvexPolyhedron on the 8 points (+-1, +-1, +-1) with 12         *)
(* triangles has 6 facets of 4 vertices; the neighbors of a facet are the  *)
(* 4 facets other than itself and the facet opposite; volume is 8 (6 *     *)
(* volume is 48) and surface_area is 24 (48 halves times sqrt(1)).         *)
C10_Cube ==
    (kind = "ConvexPolyhedron" /\ lastOp = "init" /\ vertices = CubeV)
    => /\ status = "ok"
       /\ Len(facets) = 6
       /\ \A i \in 1..Len(facets) : Len(facets[i]) = 4
       /\ \A i \in 1..Len(facets) :
             /\ Len(neighbors[i]) = 4
             /\ Range(neighbors[i])
                  = {j \in 1..Len(facets) :
                       j # i /\ Range(facets[j]) \cap Range(facets[i]) # {}}
       /\ volume(vertices, facets, equations) = 48
       /\ surface_area(vertices, facets) = {<<1, 48>>}

\* the cube constructed from 12 triangles
C10_Witness ==
    /\ kind = "ConvexPolyhedron" /\ lastOp = "init" /\ vertices = CubeV
    /\ status = "ok" /\ Len(prev.facets) = 12 /\ Len(facets) = 6

\* C8 on closed surfaces with a connected neighbor graph
C8_ClosedNoStaleState ==
    (Constructed /\ ClosedSurface(facets) /\ ConnectedGraph(neighbors)) => C8_NoStaleState

----------------------------------------------------------------------------
\* the planes through three vertices that have every vertex on one side,
\* each as <<outward normal, offset>>
SupportingPlanes(vs) ==
    UNION {Only({IF n = Zero3 THEN {}
                 ELSE Only({IF \A i \in 1..Len(vs) : Dot(p, vs[i]) <= Dot(p, vs[t[1]])
                            THEN {<<p, Dot(p, vs[t[1]])>>}
                            ELSE IF \A i \in 1..Len(vs) : Dot(p, vs[i]) >= Dot(p, vs[t[1]])
                            THEN {NegateEquation(<<p, Dot(p, vs[t[1]])>>)}
                            ELSE {} :
                              p \in {VDiv(n, Gcd3(n))}}) :
                    n \in {Cross(VSub(vs[t[3]], vs[t[2]]), VSub(vs[t[1]], vs[t[2]]))}}) :
            t \in {u \in (1..Len(vs)) \X (1..Len(vs)) \X (1..Len(vs)) :
                      u[1] < u[2] /\ u[2] < u[3]}}

(* C11: a ConvexPolyhedron has, after construction, one facet per          *)
(* supporting plane of the hull of its vertices and no more facets than    *)
(* hull simplices: 8 for the octahedron, 4 for the tetrahedron, 6 for the  *)
(* cube, 14 for the cuboctahedron, 12 for the rhombic dodecahedron.        *)
C11_FacetCount ==
    (kind = "ConvexPolyhedron" /\ lastOp = "init")
    => /\ status = "ok"
       /\ \E planes \in {SupportingPlanes(vertices)} :
             /\ Len(facets) = Cardinality(planes)
             /\ Range(equations) = planes
       /\ Len(facets) <= Len(prev.facets)
       /\ vertices = OctahedronV => Len(facets) = 8
       /\ vertices = TetrahedronV => Len(facets) = 4
       /\ vertices = CubeV => Len(facets) = 6
       /\ vertices = CuboctahedronV => Len(facets) = 14
       /\ vertices = RhombicDodecahedronV => Len(facets) = 12

\* the cuboctahedron constructed from its 20 hull simplices
C11_Witness ==
    /\ kind = "ConvexPolyhedron" /\ lastOp = "init" /\ status = "ok"
    /\ vertices = CuboctahedronV
    /\ Len(prev.facets) = 20 /\ Len(facets) = 14

(* C12: an assignment to volume raises when the requested volume is <= 0   *)
(* or the volume of the polyhedron is not positive.                        *)
C12_NonPositiveVolumeRaises ==
    (lastOp = "volume"
       /\ (call.arg[1] <= 0
             \/ volume(prev.vertices, prev.facets, prev.equations) <= 0))
    => call.raised

(* C13: after a positive value V is assigned to volume on a polyhedron of  *)
(* positive volume, volume reads V; every vertex coordinate and every      *)
(* plane offset was multiplied by the one factor k with k^3 = V / old      *)
(* volume, and normals, facets and neighbor lists are as before.           *)
C13_VolumeRoundTrip ==
    (lastOp = "volume" /\ call.arg[1] > 0
       /\ volume(prev.vertices, prev.facets, prev.equations) > 0)
    => /\ status = "ok" /\ ~call.raised
       /\ call.arg[2] * volume(vertices, facets, equations) = 6 * call.arg[1]
       /\ \E k \in Factors :
             /\ k[1] * k[1] * k[1] * call.arg[2]
                    * volume(prev.vertices, prev.facets, prev.equations)
                  = k[2] * k[2] * k[2] * 6 * call.arg[1]
             /\ \A i \in 1..Len(vertices) :
                   VScale(k[2], vertices[i]) = VScale(k[1], prev.vertices[i])
             /\ \A i \in 1..Len(equations) :
                   /\ k[2] * equations[i][2] = k[1] * prev.equations[i][2]
                   /\ equations[i][1] = prev.equations[i][1]
       /\ Len(vertices) = Len(prev.vertices)
       /\ Len(equations) = Len(prev.equations)
       /\ facets = prev.facets
       /\ neighbors = prev.neighbors

\* a volume assigned to a polyhedron with a facet whose offset is not 0
C13_Witness ==
    /\ lastOp = "volume" /\ status = "ok" /\ call.arg[1] > 0
    /\ volume(prev.vertices, prev.facets, prev.equations) > 0
    /\ call.arg[2] * volume(prev.vertices, prev.facets, prev.equations) # 6 * call.arg[1]
    /\ \E i \in 1..Len(equations) : equations[i][2] # 0

(* C14: after c is assigned to center, center reads c; every vertex moved  *)
(* by delta = c - old center, every normal is unchanged, every offset      *)
(* changed by normal . delta, and facets and neighbor lists are unchanged. *)
C14_CenterAssigned ==
    lastOp = "center"
    => /\ status = "ok" /\ ~call.raised
       /\ center(vertices) = call.arg
       /\ \E old \in {center(prev.vertices)} :
            \E delta \in {VDiv(VSub(call.arg[1], old[1]), old[2])} :
               /\ VScale(old[2], delta) = VSub(call.arg[1], old[1])
               /\ Len(vertices) = Len(prev.vertices)
               /\ \A i \in 1..Len(vertices) :
                     vertices[i] = VAdd(prev.vertices[i], delta)
               /\ Len(equations) = Len(prev.equations)
               /\ \A i \in 1..Len(equations) :
                     /\ equations[i][1] = prev.equations[i][1]
                     /\ equations[i][2]
                          = prev.equations[i][2] + Dot(prev.equations[i][1], delta)
       /\ facets = prev.facets
       /\ neighbors = prev.neighbors

\* a center assigned that changed the offset of some facet
C14_Witness ==
    /\ lastOp = "center" /\ status = "ok"
    /\ center(vertices) # center(prev.vertices)
    /\ \E i \in 1..Len(equations) : equations[i][2] # prev.equations[i][2]

CenterKeepsProperties ==
    /\ volume(vertices, facets, equations)
         = volume(prev.vertices, prev.facets, prev.equations)
    /\ surface_area(vertices, facets) = surface_area(prev.vertices, prev.facets)
    /\ inertia_tensor(vertices, facets) = inertia_tensor(prev.vertices, prev.facets)

(* C15: no assignment to center changes volume, surface_area or            *)
(* inertia_tensor; so moving the centroid to the origin and back leaves    *)
(* them as they were.                                                      *)
C15_CenterKeepsProperties == lastOp = "center" => CenterKeepsProperties

\* C15 on closed surfaces with a connected neighbor graph
C15_ClosedCenterKeepsProperties ==
    (lastOp = "center" /\ ClosedSurface(facets) /\ ConnectedGraph(neighbors))
    => CenterKeepsProperties

(* C16: get_dihedral(a, b) raises exactly when facet b is not a neighbor   *)
(* of facet a, as when a = b or when the two are opposite faces of a cube, *)
(* and returns an angle otherwise; either way vertices, facets, equations  *)
(* and neighbors are as before the call.                                   *)
C16_DihedralOfNeighbors ==
    lastOp = "get_dihedral"
    => \E a \in {call.arg[1]}, b \in {call.arg[2]} :
          /\ call.raised <=> (a = b \/ UndirectedEdges(facets[a])
                                         \cap UndirectedEdges(facets[b]) = {})
          /\ Range(facets[a]) \cap Range(facets[b]) = {} => call.raised
          /\ ~call.raised => /\ Len(call.value) = 3
                             /\ call.value[3] > 0
                             /\ call.value[2] <= call.value[3]
          /\ Fields = prev
          /\ status = "ok"

\* get_dihedral has raised for two opposite faces of the cube
C16_Witness ==
    /\ lastOp = "get_dihedral" /\ call.raised
    /\ vertices = CubeV /\ Len(facets) = 6
    /\ Range(facets[call.arg[1]]) \cap Range(facets[call.arg[2]]) = {}

\* length^2 and dihedral angle of an edge that lies in two facets
EdgeTerm(e) ==
    Only({<<edge_length2(vertices, SetToSeq(e)),
            arccos_of(-Dot(equations[S[1]][1], equations[S[2]][1]),
                      Dot(equations[S[1]][1], equations[S[1]][1])
                        * Dot(equations[S[2]][1], equations[S[2]][1]))>> :
            S \in {SetToSeq(FacetsWithEdge(facets, e))}})

\* every edge of the polyhedron counted once
EdgeTerms ==
    [t \in {EdgeTerm(e) : e \in AllEdges(facets)} |->
        Cardinality({e \in AllEdges(facets) : EdgeTerm(e) = t})]

(* C17 as amended: mean_curvature is the sum over each undirected neighbor *)
(* edge of edge_length * (pi - dihedral_angle), divided by 8 * pi; for the *)
(* cube that is 12 edges of length 2 and angle pi/2, which gives 1.5.      *)
C17_MeanCurvature ==
    lastOp = "mean_curvature"
    => /\ ~call.raised
       /\ ClosedSurface(facets)
       /\ call.value = [norm |-> 8, terms |-> EdgeTerms]
       /\ vertices = CubeV
            => call.value = [norm |-> 8, terms |-> (<<4, <<0, 0, 1>>>> :> 12)]

(* C17 as stated: mean_curvature is the sum over each undirected neighbor  *)
(* edge of 0.5 * edge_length * (pi - dihedral_angle), divided by 8 * pi,   *)
(* that is, the sum of edge_length * (pi - dihedral_angle) divided by      *)
(* 16 * pi.                                                                *)
C17_MeanCurvatureHalved ==
    lastOp = "mean_curvature"
    => /\ ~call.raised
       /\ call.value = [norm |-> 16, terms |-> EdgeTerms]

\* mean_curvature read on the cube
C17_Witness ==
    /\ lastOp = "mean_curvature" /\ ~call.raised
    /\ vertices = CubeV /\ Len(facets) = 6

----------------------------------------------------------------------------
(* The descriptor dispatch *)

GsdTypes == {"Sphere", "Ellipsoid", "Polygon", "ConvexPolyhedron", "Mesh"}

\* the class the descriptor stands for, by its type and its keys
ClassOf(params, ndim) ==
    IF params.type = "Sphere"
    THEN IF ndim = 2 THEN "Circle" ELSE "Sphere"
    ELSE IF params.type = "Ellipsoid"
    THEN IF "c" \in params.keys THEN "Ellipsoid" ELSE "Ellipse"
    ELSE IF params.type = "Polygon"
    THEN IF "rounding_radius" \in params.keys THEN "ConvexSpheropolygon"
         ELSE IF ConvexPolygonValid(params.vertices) THEN "ConvexPolygon"
         ELSE "Polygon"
    ELSE IF params.type = "ConvexPolyhedron"
    THEN IF "rounding_radius" \in params.keys THEN "ConvexSpheropolyhedron"
         ELSE "ConvexPolyhedron"
    ELSE "Polyhedron"

\* the arguments the class is constructed with
ArgsOf(params, class) ==
    IF class \in {"Circle", "Sphere"} THEN <<<<params.diameter, 2>>>>
    ELSE IF class = "Ellipsoid" THEN <<params.a, params.b, params.c>>
    ELSE IF class = "Ellipse" THEN <<params.a, params.b>>
    ELSE IF class \in {"ConvexSpheropolygon", "ConvexSpheropolyhedron"}
    THEN <<params.vertices, params.rounding_radius>>
    ELSE IF class = "Polyhedron" THEN <<params.vertices, params.faces>>
    ELSE <<params.vertices>>

(* C18: from_gsd_type_shapes chooses the class from the type and the keys  *)
(* present only: Sphere gives Circle iff ndim = 2 and Sphere otherwise,    *)
(* with radius diameter/2; Ellipsoid gives Ellipsoid iff 'c' is present    *)
(* and Ellipse otherwise; Polygon gives ConvexSpheropolygon iff            *)
(* 'rounding_radius' is present, otherwise ConvexPolygon, and Polygon only *)
(* when ConvexPolygon raises ValueError; ConvexPolyhedron gives            *)
(* ConvexSpheropolyhedron iff 'rounding_radius' is present and             *)
(* ConvexPolyhedron otherwise; Mesh gives Polyhedron(vertices, faces); a   *)
(* missing type or any other type raises ValueError and returns no shape.  *)
C18_Dispatch ==
    shape.called
    => /\ (shape.class = "") # (shape.raised = "")
       /\ ("type" \notin request.params.keys \/ request.params.type \notin GsdTypes)
            => shape.raised = "ValueError"
       /\ shape.class # ""
            => /\ "type" \in request.params.keys
               /\ request.params.type \in GsdTypes
               /\ shape.class = ClassOf(request.params, request.ndim)
               /\ shape.args = ArgsOf(request.params, shape.class)
               /\ shape.class = "Sphere"
                    => sphere.exists /\ sphere.radius = radius_of(request.params.diameter, 2)
               /\ shape.class \in {"Polyhedron", "ConvexPolyhedron"}
                    => /\ kind = shape.class
                       /\ lastOp = "init" => prev.vertices = request.params.vertices
                       /\ (lastOp = "init" /\ kind = "Polyhedron")
                            => prev.facets = request.params.faces

\* a dart, which is no convex polygon, became a Polygon in a call with
\* ndim = 2, and a 'c' key the type has no use for was present
C18_Witness ==
    /\ shape.called
    /\ shape.class = "Polygon"
    /\ request.ndim = 2
    /\ "c" \in request.params.keys
    /\ request.params.vertices = DartV

----------------------------------------------------------------------------
(* The Sphere *)

(* C20: the radius of a Sphere is positive in every state; constructing a  *)
(* Sphere with a radius <= 0, or assigning a value <= 0 to radius, volume  *)
(* or surface_area, raises at that call and leaves the radius and the      *)
(* center as they were; a positive volume or surface_area that was         *)
(* assigned is the value read back.                                        *)
C20_SpherePositive ==
    /\ sphere.exists => sphere.radius[1] > 0 /\ sphere.radius[2] > 0
    /\ ~sphere.exists => sphere = NoSphere
    /\ lastOp \in {"Sphere", "Sphere.radius", "Sphere.volume", "Sphere.surface_area"}
         => /\ call.raised = (call.arg <= 0)
            /\ call.raised => sphere = prev
    /\ (lastOp = "Sphere.volume" /\ call.arg > 0)
         => SameNumber(sphere_volume(sphere.radius), Number(call.arg))
    /\ (lastOp = "Sphere.surface_area" /\ call.arg > 0)
         => SameNumber(sphere_surface_area(sphere.radius), Number(call.arg))

\* the volume 0 refused by a Sphere whose surface area had been set to 2 and
\* whose center is not the origin
C20_Witness ==
    /\ lastOp = "Sphere.volume" /\ call.arg = 0 /\ call.raised
    /\ sphere.exists
    /\ sphere.radius = radius_of_area(2)
    /\ sphere.center # Zero3

----------------------------------------------------------------------------
(* Circles *)

(* C21: a radius that is not positive is refused for circles as for        *)
(* spheres: from_gsd_type_shapes on a Sphere descriptor whose diameter is  *)
(* <= 0 raises for ndim = 3 (Sphere) and for ndim = 2 (Circle), and no     *)
(* shape is returned.                                                      *)
C21_CircleRadiusPositive ==
    (/\ shape.called
     /\ {"type", "diameter"} \subseteq request.params.keys
     /\ request.params.type = "Sphere"
     /\ request.params.diameter <= 0)
    => shape.raised # "" /\ shape.class = ""

----------------------------------------------------------------------------
(* Point containment *)

\* x is in the convex hull of the vertices
InHull(vs, x) == \A plane \in SupportingPlanes(vs) : Dot(plane[1], x) <= plane[2]

\* the two bounds of pi give the same answer
PiDecides(r, dist2) == WithinRadius(r, dist2, PiUpper) = WithinRadius(r, dist2, PiLower)

(* C22: containment includes the boundary.  ConvexPolyhedron.is_inside is  *)
(* True for a point iff its signed distance to every facet plane is <= 0,  *)
(* so points on a facet, an edge or a vertex are inside; Sphere.is_inside  *)
(* is True iff the distance of the point from the center is <= radius.     *)
C22_InsideWithBoundary ==
    /\ lastOp = "is_inside"
         => /\ call.value = (\A i \in 1..Len(equations) :
                                Dot(equations[i][1], call.arg) <= equations[i][2])
            /\ Len(vertices) <= Len(CubeV) => call.value = InHull(vertices, call.arg)
            /\ (vertices = CubeV
                  /\ call.arg \in {<<1, 1, 1>>, <<1, 1, 0>>, <<1, 0, 0>>, <<0, 0, 0>>})
                 => call.value
            /\ (vertices = CubeV /\ call.arg = <<2, 0, 0>>) => ~call.value
    /\ lastOp = "Sphere.is_inside"
         => \E dist2 \in {Dot(VSub(call.arg, sphere.center), VSub(call.arg, sphere.center))} :
              /\ PiDecides(sphere.radius, dist2)
              /\ call.value = WithinRadius(sphere.radius, dist2, PiLower)
              /\ sphere.radius = radius_of(2, 1) => call.value = (dist2 <= 4)
              /\ sphere.radius = radius_of(3, 1) => call.value = (dist2 <= 9)

\* the middle of an edge of the cube is inside
C22_Witness ==
    /\ lastOp = "is_inside" /\ vertices = CubeV /\ Len(facets) = 6
    /\ call.arg = <<1, 1, 0>> /\ call.value

----------------------------------------------------------------------------
(* Polygons *)

Duplicated(pts) == \E j, k \in 1..Len(pts) : j # k /\ pts[j] = pts[k]

\* every four of the points lie in one plane
CoplanarPoints(v) ==
    \A i, j, k, l \in 1..Len(v) :
       Det(VSub(v[j], v[i]), VSub(v[k], v[i]), VSub(v[l], v[i])) = 0

Reflected(pts) == <<pts[1]>> \o Reverse(Tail(pts))

\* what C24 says of every call of reorder_verts
ReorderPermutes ==
    lastOp = "reorder_verts"
    => /\ Len(polygon.vertices) = Len(prev.vertices)
       /\ Range(polygon.vertices) = Range(prev.vertices)
       /\ polygon.vertices[1] = prev.vertices[1]
       /\ polygon.normal = prev.normal

\* what C24 says of reorder_verts(True) on a counterclockwise polygon
ReorderReverses ==
    /\ polygon.vertices = Reflected(prev.vertices)
    /\ signed_area(polygon.vertices, polygon.normal)
          = -signed_area(prev.vertices, prev.normal)
    /\ polygon_area(polygon.vertices, polygon.normal)
          = polygon_area(prev.vertices, prev.normal)

(* C24 as stated: the construction keeps the vertices in the order given;  *)
(* reorder_verts(clockwise) returns a permutation of the same vertices     *)
(* with the first vertex still first; after reorder_verts(True) on a       *)
(* counterclockwise polygon the cyclic order is reversed, signed_area is   *)
(* the negative of its former value and area is unchanged.                 *)
C24_ReorderAnyPolygon ==
    /\ (lastOp = "Polygon" /\ ~call.raised) => polygon.vertices = to_3d(call.arg)
    /\ ReorderPermutes
    /\ (lastOp = "reorder_verts" /\ call.arg
          /\ signed_area(prev.vertices, prev.normal) > 0)
         => ReorderReverses

(* C24 as amended: the same, the reversal being claimed of a               *)
(* counterclockwise convex polygon; for the unit square of the tests       *)
(* signed_area goes from 1 to -1.                                          *)
C24_ReorderConvexPolygon ==
    /\ (lastOp = "Polygon" /\ ~call.raised) => polygon.vertices = to_3d(call.arg)
    /\ ReorderPermutes
    /\ (lastOp = "reorder_verts" /\ call.arg
          /\ signed_area(prev.vertices, prev.normal) > 0
          /\ ConvexPolygonValid(prev.vertices))
         => /\ ReorderReverses
            /\ prev.vertices = Shifted(TestSquare, <<2, 2, 2>>)
                 => /\ signed_area(prev.vertices, prev.normal) = 2
                    /\ signed_area(polygon.vertices, polygon.normal) = -2

\* reorder_verts(True) on the shifted square of the tests
C24_Witness ==
    /\ lastOp = "reorder_verts" /\ call.arg
    /\ prev.vertices = Shifted(TestSquare, <<2, 2, 2>>)
    /\ polygon.vertices = Reflected(prev.vertices)

----------------------------------------------------------------------------
(* The terms of mean_curvature *)

\* the number of terms in a count of terms
RECURSIVE TermCount(_, _)
TermCount(terms, S) ==
    IF S = {} THEN 0
    ELSE LET t == CHOOSE x \in S : TRUE
         IN  terms[t] + TermCount(terms, S \ {t})

(* C25: mean_curvature takes each undirected pair of neighboring facets    *)
(* once, the pair {i, j} for i < j only, so the number of terms of its sum *)
(* is the number of edges of the polyhedron: 12 for the cube.              *)
C25_OneTermPerEdge ==
    (lastOp = "mean_curvature" /\ ~call.raised)
    => /\ curvature_pairs(neighbors)
            = {p \in (1..Len(facets)) \X (1..Len(facets)) :
                  /\ p[1] < p[2]
                  /\ UndirectedEdges(facets[p[1]]) \cap UndirectedEdges(facets[p[2]]) # {}}
       /\ TermCount(call.value.terms, DOMAIN call.value.terms)
            = Cardinality(AllEdges(facets))
       /\ vertices = CubeV
            => TermCount(call.value.terms, DOMAIN call.value.terms) = 12

\* mean_curvature read on the cuboctahedron, which has 24 edges
C25_Witness ==
    /\ lastOp = "mean_curvature" /\ ~call.raised
    /\ vertices = CuboctahedronV
    /\ TermCount(call.value.terms, DOMAIN call.value.terms) = 24

(* C27: in every ConvexPolyhedron, after construction, two neighboring     *)
(* facets share exactly one edge, so that the assertion len(edge) == 1 of  *)
(* mean_curvature holds.                                                   *)
C27_OneCommonEdge ==
    (kind = "ConvexPolyhedron" /\ status = "ok")
    => /\ \A i \in 1..Len(facets) : \A k \in 1..Len(neighbors[i]) :
             /\ Cardinality(UndirectedEdges(facets[i])
                              \cap UndirectedEdges(facets[neighbors[i][k]])) = 1
             /\ Cardinality(common_edges(facets, i, neighbors[i][k])) = 1
       /\ lastOp = "mean_curvature" => ~call.raised

\* mean_curvature has run on the rhombic dodecahedron without raising
C27_Witness ==
    /\ kind = "ConvexPolyhedron" /\ status = "ok"
    /\ lastOp = "mean_curvature" /\ ~call.raised
    /\ vertices = RhombicDodecahedronV
    /\ Len(facets) = 12

----------------------------------------------------------------------------
(* The orientation traversal *)

NoRepeat(s) == \A j, k \in 1..Len(s) : j # k => s[j] # s[k]

PositionIn(s, x) == CHOOSE k \in 1..Len(s) : s[k] = x

\* the traversal r of sort_facets left facet f opposite to a neighbor that
\* was expanded before f, along the first edge of f that the two share
OrientedByEarlier(r, f) ==
    \E g \in Range(r.neighbors[f]) :
       /\ PositionIn(r.expanded, g) < PositionIn(r.expanded, f)
       /\ ~same_direction(facet_to_edges(r.oriented[f], FALSE),
                          Range(facet_to_edges(r.oriented[g], FALSE)))

TraversalSound(r) ==
    /\ NoRepeat(r.expanded)
    /\ Range(r.expanded) = ReachableFrom(r.neighbors, {1})
    /\ NoRepeat(r.flips)
    /\ ~Contains(r.flips, 1)
    /\ Range(r.flips) \subseteq Range(r.expanded)
    /\ \A f \in 1..Len(r.ordered) :
          r.oriented[f] = IF Contains(r.flips, f) THEN Reverse(r.ordered[f])
                          ELSE r.ordered[f]
    /\ \A f \in Range(r.expanded) \ {1} : OrientedByEarlier(r, f)

(* C26: the orientation traversal of sort_facets ends for every facet      *)
(* list, disconnected and non-manifold ones included; it expands each      *)
(* facet reachable from the first facet exactly once, never reverses the   *)
(* first facet, and reverses any other reachable facet at most once,       *)
(* relative to the final winding of the facet that discovered it.          *)
C26_TraversalOnce ==
    (lastOp = "init" /\ InputValid)
    => \E r \in {sort_facets(vertices, prev.facets)} : r.ok /\ TraversalSound(r)

\* the traversal of two pyramids that do not touch: it reverses a facet and
\* does not reach every facet
C26_Witness ==
    /\ lastOp = "init" /\ kind = "Polyhedron" /\ InputValid
    /\ vertices = TwoPyramidsV
    /\ \E r \in {sort_facets(vertices, prev.facets)} :
          /\ r.flips # <<>>
          /\ Range(r.expanded) # 1..Len(prev.facets)

----------------------------------------------------------------------------
(* The reordering of one facet *)

\* the reordering step, on the facet list fs, only permutes each facet
OnlyPermuted(vs, fs) ==
    \A i \in 1..Len(fs) :
       \E ordered \in {reorder_facet(vs, fs[i])} :
          /\ Len(ordered) = Len(fs[i])
          /\ Range(ordered) = Range(fs[i])
          /\ NoRepeat(ordered)

\* the facet list merge_facets hands to sort_facets in the constructor of a
\* ConvexPolyhedron
MergedInput ==
    Only({merged_facets(r.facets, r.equations, r.neighbors) :
            r \in {sort_facets(vertices, prev.facets)}})

(* C28: when no two vertices have the same coordinates, the reordering     *)
(* step of sort_facets only permutes a facet: it has afterwards the length *)
(* and the set of vertex indices it had, each reordered point being mapped *)
(* back to the first vertex with equal coordinates.                        *)
C28_ReorderPermutesFacet ==
    (lastOp = "init" /\ InputValid /\ NoRepeat(vertices))
    => /\ OnlyPermuted(vertices, prev.facets)
       /\ kind = "Polyhedron"
            => \A i \in 1..Len(facets) : Range(facets[i]) = Range(prev.facets[i])
       /\ kind = "ConvexPolyhedron"
            => \E fs \in {MergedInput} :
                  /\ OnlyPermuted(vertices, fs)
                  /\ \A i \in 1..Len(facets) : Range(facets[i]) = Range(fs[i])

\* a cube: the four vertices of a merged face were put in another order
C28_Witness ==
    /\ lastOp = "init" /\ InputValid /\ NoRepeat(vertices)
    /\ kind = "ConvexPolyhedron"
    /\ vertices = CubeV
    /\ \E fs \in {MergedInput} :
          \E i \in 1..Len(fs) :
             /\ Len(fs[i]) = 4
             /\ reorder_facet(vertices, fs[i]) # fs[i]

\* the factor a setter call scaled by: k^3 = V / old volume for volume,
\* k^2 = r^2 / old radius^2 for circumsphere_radius
ScaleFactorOf(k) ==
    IF lastOp = "volume"
    THEN k[1] * k[1] * k[1] * call.arg[2]
             * volume(prev.vertices, prev.facets, prev.equations)
           = k[2] * k[2] * k[2] * 6 * call.arg[1]
    ELSE \E old2 \in {circumsphere_radius2(prev.vertices)} :
            k[1] * k[1] * old2[1] * call.arg[2]
              = k[2] * k[2] * call.arg[1] * old2[2]

\* a setter call with a positive value on a polyhedron it can rescale
ScalingCall ==
    /\ lastOp \in {"volume", "circumsphere_radius"}
    /\ call.arg[1] > 0 /\ call.arg[2] > 0
    /\ lastOp = "volume"
         => volume(prev.vertices, prev.facets, prev.equations) > 0

(* C29: the volume and circumsphere_radius setters scale about the         *)
(* coordinate origin: every vertex coordinate and every plane offset is    *)
(* multiplied by the scale factor, center is multiplied by the same factor *)
(* and so is preserved only when it is at the origin, and after            *)
(* circumsphere_radius = r with r > 0 circumsphere_radius reads r.         *)
C29_ScalesAboutOrigin ==
    ScalingCall
    => /\ status = "ok" /\ ~call.raised
       /\ \E k \in Factors :
             /\ ScaleFactorOf(k)
             /\ \A i \in 1..Len(vertices) :
                   VScale(k[2], vertices[i]) = VScale(k[1], prev.vertices[i])
             /\ \A i \in 1..Len(equations) :
                   k[2] * equations[i][2] = k[1] * prev.equations[i][2]
             /\ \E c \in {center(vertices)} : \E pc \in {center(prev.vertices)} :
                   /\ VScale(k[2] * pc[2], c[1]) = VScale(k[1] * c[2], pc[1])
                   /\ (VScale(pc[2], c[1]) = VScale(c[2], pc[1]))
                        <=> (pc[1] = Zero3)
       /\ lastOp = "circumsphere_radius"
            => \E r2 \in {circumsphere_radius2(vertices)} :
                  r2[1] * call.arg[2] = call.arg[1] * r2[2]

\* a circumsphere radius assigned to a polyhedron whose center is not the
\* origin: the center moved
C29_Witness ==
    /\ ScalingCall /\ lastOp = "circumsphere_radius" /\ status = "ok"
    /\ center(prev.vertices)[1] # Zero3
    /\ \E c \in {center(vertices)} : \E pc \in {center(prev.vertices)} :
          VScale(pc[2], c[1]) # VScale(c[2], pc[1])
    /\ \E i \in 1..Len(equations) : equations[i][2] # prev.equations[i][2]

\* S with every particle evaluated at the row of K turned by the inverse of
\* that particle's own orientation
OwnOrientationOnly(K, position, orientation) ==
    Tup([i \in 1..Len(K) |->
           particle_loop_own(K[i], position, orientation, 1, NoSum)])

Orders(n) == {p \in [1..n -> 1..n] : Range(p) = 1..n}

\* S does not depend on the order the particles were given in
OrderIndependent ==
    \A p \in Orders(Len(ft.position)) :
       compute_ft(ft.K, Tup([j \in 1..Len(p) |-> ft.position[p[j]]]),
                  Tup([j \in 1..Len(p) |-> ft.orientation[p[j]]])) = ft.S

(* C30: after compute, each particle's contribution to S[i] is evaluated   *)
(* at K[i] rotated by the inverse of that particle's own orientation only, *)
(* so S does not depend on the order the particles were given to set_rq in *)
(* nor on the orientations of the other particles.                         *)
C30_OwnOrientationOnly ==
    lastOp = "compute"
    => /\ ft.S = OwnOrientationOnly(ft.K, ft.position, ft.orientation)
       /\ OrderIndependent

============================================================================
